---- MODULE Spec2Model ----
(***************************************************************************)
(* A model of content.js of SalesforceEnhancedObjectSearch: the picklist   *)
(* enrichment of the rendered field rows, the Quick Find row filter, the   *)
(* field-type mapping, the sheet-name allocation and the XLSX exports.     *)
(*                                                                         *)
(* JavaScript strings are sequences of one-character strings, so that      *)
(* substring, toLowerCase, includes and the decimal rendering of a number  *)
(* are computed and not assumed.                                           *)
(***************************************************************************)
EXTENDS Integers, Sequences, FiniteSets, TLC

VARIABLES
  call,            \* the pure function under call and its arguments
  ret,             \* <<>> before the call returns, <<value>> after
  pathId,          \* the identifier in window.location.pathname, <<>> when it has none
  table,           \* the ids of the rows of the table body, in rendering order
  rows,            \* per row: dataset.picklistFetched, dataset.picklistText, title, style.display
  initialised,     \* initPicklistProcessing has set up the detail page
  customQF,        \* the custom Quick Find input: whether it exists, and its value
  mutations,       \* addedNodes.length of the mutation records not yet delivered
  passesResolving, \* enrichment passes suspended in getObjectApiNameFromURL
  picklistReqs,    \* fetchPicklistValues requests that have no response yet
  reqCount,        \* per row, the fetchPicklistValues requests issued so far
  uncaught,        \* an exception has escaped a callback or an async function
  exports,         \* per export invocation: where it is and what it has built
  describeReqs,    \* fetchObjectDescribe requests that have no response yet
  resolveReqs,     \* fetchCustomObjectApiName requests of the exports, unanswered
  downloads,       \* the workbooks handed to XLSX.write and the download link
  spinner          \* the exportSpinner element is in the document

pureVars == <<call, ret>>
detailVars == <<pathId, table, rows, initialised, customQF, mutations,
                passesResolving, picklistReqs, reqCount, uncaught>>
exportVars == <<exports, describeReqs, resolveReqs, downloads, spinner>>
vars == <<pureVars, detailVars, exportVars>>

-----------------------------------------------------------------------------
(* String literals of the source                                            *)

S_empty == <<>>
S_space == <<" ">>
S_reference == <<"r", "e", "f", "e", "r", "e", "n", "c", "e">>
S_double == <<"d", "o", "u", "b", "l", "e">>
S_string == <<"s", "t", "r", "i", "n", "g">>
S_LookupUser == <<"L", "o", "o", "k", "u", "p", "(", "U", "s", "e", "r", ")">>
S_Number40 == <<"N", "u", "m", "b", "e", "r", "(", "4", ",", "0", ")">>
S_TextOpen == <<"T", "e", "x", "t", "(">>
S_Close == <<")">>
S_picklist == <<"p", "i", "c", "k", "l", "i", "s", "t">>
S_customSuffix == <<"_", "_", "c">>
S_ErrorFetchingFields == <<"E", "r", "r", "o", "r", " ", "f", "e", "t", "c", "h", "i", "n", "g", " ", "f", "i", "e", "l", "d", "s">>
S_FieldLabel == <<"F", "i", "e", "l", "d", " ", "L", "a", "b", "e", "l">>
S_APIName == <<"A", "P", "I", " ", "N", "a", "m", "e">>
S_FieldType == <<"F", "i", "e", "l", "d", " ", "T", "y", "p", "e">>
S_FieldLength == <<"F", "i", "e", "l", "d", " ", "L", "e", "n", "g", "t", "h">>
S_PicklistValues == <<"P", "i", "c", "k", "l", "i", "s", "t", " ", "V", "a", "l", "u", "e", "s">>

(* Texts used as inputs                                                     *)
S_Account == <<"A", "c", "c", "o", "u", "n", "t">>
S_Account1 == <<"A", "c", "c", "o", "u", "n", "t", "1">>
S_Contact == <<"C", "o", "n", "t", "a", "c", "t">>
S_Name == <<"N", "a", "m", "e">>
S_String == <<"S", "t", "r", "i", "n", "g">>
S_Status == <<"S", "t", "a", "t", "u", "s">>
S_Status__c == <<"S", "t", "a", "t", "u", "s", "_", "_", "c">>
S_Picklist == <<"P", "i", "c", "k", "l", "i", "s", "t">>
S_Type == <<"T", "y", "p", "e">>
S_ActiveInactive == <<"A", "c", "t", "i", "v", "e", ";", "I", "n", "a", "c", "t", "i", "v", "e">>
S_Checkbox == <<"C", "h", "e", "c", "k", "b", "o", "x">>
S_checkbox == <<"c", "h", "e", "c", "k", "b", "o", "x">>
S_Reference == <<"R", "e", "f", "e", "r", "e", "n", "c", "e">>
S_REFERENCE == <<"R", "E", "F", "E", "R", "E", "N", "C", "E">>
S_Double == <<"D", "o", "u", "b", "l", "e">>
S_STRING == <<"S", "T", "R", "I", "N", "G">>
S_strings == <<"s", "t", "r", "i", "n", "g", "s">>
S_dATE == <<"d", "A", "T", "E">>
S_9x == <<"9", "x">>
S_Hot == <<"H", "o", "t">>
S_Invoice__c == <<"I", "n", "v", "o", "i", "c", "e", "_", "_", "c">>
S_Section == <<"S", "e", "c", "t", "i", "o", "n">>
Q_Pick == <<" ", "P", "i", "c", "k", " ">>
Q_Active == <<"A", "c", "t", "i", "v", "e">>
Q_sa == <<"s", " ", "a">>
Q_custom == <<"_", "_", "C">>

-----------------------------------------------------------------------------
(* The JavaScript string and array built-ins the source uses                *)

UpperChars == <<"A", "B", "C", "D", "E", "F", "G", "H", "I", "J", "K", "L", "M",
                "N", "O", "P", "Q", "R", "S", "T", "U", "V", "W", "X", "Y", "Z">>
LowerChars == <<"a", "b", "c", "d", "e", "f", "g", "h", "i", "j", "k", "l", "m",
                "n", "o", "p", "q", "r", "s", "t", "u", "v", "w", "x", "y", "z">>
DigitChars == <<"0", "1", "2", "3", "4", "5", "6", "7", "8", "9">>

Min(a, b) == IF a < b THEN a ELSE b
Max(a, b) == IF a > b THEN a ELSE b

\* The case mappings of the letters; every other character maps to itself
LowerOf ==
  [c \in {UpperChars[i] : i \in DOMAIN UpperChars} |->
     LowerChars[CHOOSE i \in DOMAIN UpperChars : UpperChars[i] = c]]
UpperOf ==
  [c \in {LowerChars[i] : i \in DOMAIN LowerChars} |->
     UpperChars[CHOOSE i \in DOMAIN LowerChars : LowerChars[i] = c]]

toLowerCaseChar(c) == IF c \in DOMAIN LowerOf THEN LowerOf[c] ELSE c
toUpperCaseChar(c) == IF c \in DOMAIN UpperOf THEN UpperOf[c] ELSE c

\* String.prototype.toLowerCase / toUpperCase
toLowerCase(s) == [i \in 1..Len(s) |-> toLowerCaseChar(s[i])]
toUpperCase(s) == [i \in 1..Len(s) |-> toUpperCaseChar(s[i])]

\* s.substring(0, n): the first n characters, n clamped to 0..length
substring0(s, n) == SubSeq(s, 1, Min(Max(n, 0), Len(s)))

\* s.charAt(0): the first character, or "" for the empty string
charAt0(s) == IF Len(s) = 0 THEN <<>> ELSE <<s[1]>>

\* s.slice(1): everything after the first character
slice1(s) == SubSeq(s, 2, Len(s))

\* s.includes(q): q occurs in s at some position
includes(s, q) ==
  \E i \in 0..(Len(s) - Len(q)) : \A j \in 1..Len(q) : s[i + j] = q[j]

\* s.endsWith(suffix)
endsWith(s, suffix) ==
  /\ Len(suffix) <= Len(s)
  /\ \A j \in 1..Len(suffix) : s[Len(s) - Len(suffix) + j] = suffix[j]

\* s.trim(): leading and trailing white space removed
RECURSIVE trimStart(_)
trimStart(s) == IF Len(s) > 0 /\ s[1] = " " THEN trimStart(Tail(s)) ELSE s
RECURSIVE trimEnd(_)
trimEnd(s) ==
  IF Len(s) > 0 /\ s[Len(s)] = " " THEN trimEnd(SubSeq(s, 1, Len(s) - 1)) ELSE s
trim(s) == trimEnd(trimStart(s))

\* n.toString() and `${n}` for a non-negative integer: its decimal digits
RECURSIVE toString(_)
toString(n) ==
  IF n < 10 THEN <<DigitChars[n + 1]>>
  ELSE toString(n \div 10) \o <<DigitChars[(n % 10) + 1]>>

\* A string of n characters c
RECURSIVE Rep(_, _)
Rep(c, n) == IF n = 0 THEN <<>> ELSE <<c>> \o Rep(c, n - 1)

\* array.includes(x)
arrayIncludes(arr, x) == \E i \in 1..Len(arr) : arr[i] = x

-----------------------------------------------------------------------------
(* mapFieldTypeForExport                                                    *)

\* A length the describe response does not carry (undefined)
Absent == -1
\* JavaScript truthiness of a field length: undefined and 0 are falsy
truthyLength(fieldLength) == fieldLength # Absent /\ fieldLength # 0

SheetNameLimit == 31
DefaultTextLength == 500

\* (mutant) the switch compares the type as it came
mapFieldTypeForExport_caseSensitive(fieldType, fieldLength) ==
  IF fieldType = S_reference THEN S_LookupUser
  ELSE IF fieldType = S_double THEN S_Number40
  ELSE IF fieldType = S_string
    THEN S_TextOpen
         \o toString(IF truthyLength(fieldLength) THEN fieldLength ELSE DefaultTextLength)
         \o S_Close
  ELSE toUpperCase(charAt0(fieldType)) \o slice1(fieldType)

mapFieldTypeForExport(fieldType, fieldLength) ==
  LET t == toLowerCase(fieldType) IN
  IF t = S_reference THEN S_LookupUser
  ELSE IF t = S_double THEN S_Number40
  ELSE IF t = S_string
    THEN S_TextOpen
         \o toString(IF truthyLength(fieldLength) THEN fieldLength ELSE DefaultTextLength)
         \o S_Close
  ELSE toUpperCase(charAt0(fieldType)) \o slice1(fieldType)

-----------------------------------------------------------------------------
(* getUniqueSheetName                                                       *)

\* The while loop of getUniqueSheetName, entered with the loop variables
RECURSIVE uniqueNameLoop(_, _, _, _)
uniqueNameLoop(sheetName, existingNames, uniqueName, suffix) ==
  IF arrayIncludes(existingNames, uniqueName)
    THEN LET base == substring0(sheetName, SheetNameLimit - Len(toString(suffix)))
         IN uniqueNameLoop(sheetName, existingNames, base \o toString(suffix), suffix + 1)
    ELSE uniqueName

\* (mutant) the base is cut to 30 characters whatever the suffix
RECURSIVE uniqueNameLoop_fixedCut(_, _, _, _)
uniqueNameLoop_fixedCut(sheetName, existingNames, uniqueName, suffix) ==
  IF arrayIncludes(existingNames, uniqueName)
    THEN LET base == substring0(sheetName, SheetNameLimit - 1)
         IN uniqueNameLoop_fixedCut(sheetName, existingNames,
                                    base \o toString(suffix), suffix + 1)
    ELSE uniqueName
getUniqueSheetName_fixedCut(sheetName, existingNames) ==
  uniqueNameLoop_fixedCut(sheetName, existingNames, sheetName, 1)

getUniqueSheetName(sheetName, existingNames) ==
  uniqueNameLoop(sheetName, existingNames, sheetName, 1)

-----------------------------------------------------------------------------
(* The detail page: rendered rows, enrichment passes, the Quick Find filter *)
(*                                                                          *)
(* One action is one task of the event loop together with the microtasks    *)
(* it leaves behind: an async function runs on past an await of a value     *)
(* that is already there, and stops only where it waits for a response of   *)
(* chrome.runtime.sendMessage.                                              *)

MaxRows == 2
MaxBatch == 1
MaxPasses == 2

\* The cells (innerText of each td) of the rows the host page can render
RowCells ==
  << <<S_Name, S_Name, S_String>>,
     <<S_Status, S_Status__c, S_Picklist>>,
     <<S_Type, S_Type, S_Picklist>>,
     <<S_Section>> >>
RowIds == DOMAIN RowCells

\* A row element as the host page creates it
FreshRow == [picklistFetched |-> FALSE, picklistText |-> <<>>, title |-> <<>>,
             display |-> ""]

Range(seq) == {seq[i] : i \in DOMAIN seq}

\* The identifiers the path can carry: none, an API name, a 15-character id
S_ObjectId == <<"0", "1", "I">> \o Rep("0", 12)
PathIds == {<<>>, S_Account, S_ObjectId}

\* /^[a-zA-Z0-9]{15,18}$/.test(identifier)
isSalesforceId(identifier) ==
  /\ Len(identifier) \in 15..18
  /\ \A i \in 1..Len(identifier) :
       identifier[i] \in Range(UpperChars) \cup Range(LowerChars) \cup Range(DigitChars)

\* What the background page can answer to fetchCustomObjectApiName
ResolveResponses ==
  { [present |-> TRUE, success |-> TRUE, apiName |-> S_Invoice__c],
    [present |-> TRUE, success |-> FALSE, apiName |-> <<>>],
    [present |-> FALSE, success |-> FALSE, apiName |-> <<>>] }

\* (mutant) after a failure the identifier of the path is taken for the name
objectNameOf_identifierKept(response) ==
  IF response.present /\ response.success
    THEN [threw |-> FALSE, name |-> response.apiName]
  ELSE IF response.present
    THEN [threw |-> FALSE, name |-> pathId]
  ELSE [threw |-> TRUE, name |-> <<>>]

\* getObjectApiNameFromURL after its await: the API name, null (<<>>) after a
\* failure, or the TypeError of reading response.error of no response
objectNameOf(response) ==
  IF response.present /\ response.success
    THEN [threw |-> FALSE, name |-> response.apiName]
  ELSE IF response.present
    THEN [threw |-> FALSE, name |-> <<>>]
  ELSE [threw |-> TRUE, name |-> <<>>]

\* What the background page can answer to fetchPicklistValues
\* for a request: the values of the field asked for, no picklistText, a failure,
\* or no response object at all
picklistValuesOf(fieldApiName) ==
  IF fieldApiName = S_Status__c THEN S_ActiveInactive ELSE S_Hot
PicklistResponses(req) ==
  { [present |-> TRUE, success |-> TRUE,
     picklistText |-> <<picklistValuesOf(req.fieldApiName)>>],
    [present |-> TRUE, success |-> TRUE, picklistText |-> <<>>],
    [present |-> TRUE, success |-> FALSE, picklistText |-> <<>>],
    [present |-> FALSE, success |-> FALSE, picklistText |-> <<>>] }

\* What the user can type into the custom Quick Find
QueryValues == {S_empty, Q_Pick, Q_Active, Q_sa, Q_custom}

\* row.dataset.picklistText ? row.dataset.picklistText : ""
annotationOf(row) ==
  IF row.picklistText = <<>> THEN S_empty ELSE row.picklistText[1]

\* (mutant) the API name is not searched
rowMatches_noApiName(row, cells, query) ==
  LET fieldLabel == toLowerCase(cells[1])
      fieldType == toLowerCase(cells[3])
      picklistText == toLowerCase(annotationOf(row))
      combined == fieldLabel \o S_space \o picklistText
  IN \/ query = S_empty
     \/ includes(combined, query)
     \/ includes(fieldType, query)

\* (mutant) the picklist text is not searched
rowMatches_noPicklistText(row, cells, query) ==
  LET fieldLabel == toLowerCase(cells[1])
      apiName == toLowerCase(cells[2])
      fieldType == toLowerCase(cells[3])
  IN \/ query = S_empty
     \/ includes(fieldLabel, query)
     \/ includes(apiName, query)
     \/ includes(fieldType, query)

\* The test of one row in onQuickFindInput
rowMatches(row, cells, query) ==
  LET fieldLabel == toLowerCase(cells[1])
      apiName == toLowerCase(cells[2])
      fieldType == toLowerCase(cells[3])
      picklistText == toLowerCase(annotationOf(row))
      combined == fieldLabel \o S_space \o picklistText
  IN \/ query = S_empty
     \/ includes(combined, query)
     \/ includes(apiName, query)
     \/ includes(fieldType, query)

\* onQuickFindInput over the rows rs of the table body, for the input's value
onQuickFindInput(rs, value) ==
  LET query == toLowerCase(trim(value)) IN
  [id \in RowIds |->
     IF id \in Range(table) /\ Len(RowCells[id]) >= 3
       THEN [rs[id] EXCEPT !.display =
               IF rowMatches(rs[id], RowCells[id], query) THEN "" ELSE "none"]
       ELSE rs[id]]

\* The message fetchPicklistValuesViaBackground sends for a row
picklistRequest(id, objectName) ==
  LET fieldApiName == trim(RowCells[id][2]) IN
  [row |-> id, objectName |-> objectName, fieldApiName |-> fieldApiName,
   isStandard |-> ~endsWith(fieldApiName, S_customSuffix)]

\* The rows a pass does not skip
needsProcessing(id) ==
  /\ ~rows[id].picklistFetched
  /\ Len(RowCells[id]) >= 3

\* (mutant) the type text is searched as rendered
isPicklistRow_caseSensitive(id) == includes(RowCells[id][3], S_picklist)

\* fieldType.includes("picklist")
isPicklistRow(id) == includes(toLowerCase(RowCells[id][3]), S_picklist)

\* (mutant) the mark is never set
markFetched_forgotten(row) == row

\* row.dataset.picklistFetched = "true"
markFetched(row) == [row EXCEPT !.picklistFetched = TRUE]

\* The body of rows.forEach for a row that is not skipped
processedRow(row, id) ==
  markFetched(IF isPicklistRow(id)
                THEN row
                ELSE [row EXCEPT !.picklistText = <<S_empty>>, !.title = <<>>])

\* processPicklistRows from the object name on: the loop over the rows
passLoop(objectName) ==
  LET todo == {id \in Range(table) : needsProcessing(id)}
      asked == {id \in todo : isPicklistRow(id)}
  IN /\ rows' = [id \in RowIds |->
                   IF id \in todo THEN processedRow(rows[id], id) ELSE rows[id]]
     /\ picklistReqs' =
          picklistReqs \cup {picklistRequest(id, objectName) : id \in asked}
     /\ reqCount' = [id \in RowIds |->
                       IF id \in asked THEN reqCount[id] + 1 ELSE reqCount[id]]

\* processPicklistRows up to the point where it waits or ends
processPicklistRows ==
  IF pathId = <<>>
    THEN UNCHANGED <<rows, picklistReqs, reqCount, passesResolving>>
  ELSE IF isSalesforceId(pathId)
    THEN /\ passesResolving < MaxPasses
         /\ passesResolving' = passesResolving + 1
         /\ UNCHANGED <<rows, picklistReqs, reqCount>>
  ELSE /\ passLoop(pathId)
       /\ UNCHANGED passesResolving

\* The host page renders one more row
HostInsertRow(id) ==
  /\ id \notin Range(table)
  /\ Len(table) < MaxRows
  /\ table' = Append(table, id)
  /\ IF initialised
       THEN /\ Len(mutations) < MaxBatch
            /\ mutations' = Append(mutations, 1)
       ELSE UNCHANGED mutations
  /\ UNCHANGED <<pureVars, exportVars, pathId, rows, initialised, customQF, passesResolving,
                 picklistReqs, reqCount, uncaught>>

\* The host page removes a child of the table body that is not a field row
HostRemoveNode ==
  /\ initialised
  /\ Len(mutations) < MaxBatch
  /\ mutations' = Append(mutations, 0)
  /\ UNCHANGED <<pureVars, exportVars, pathId, table, rows, initialised, customQF,
                 passesResolving, picklistReqs, reqCount, uncaught>>

\* initPicklistProcessing on a detail page, once the table body is there:
\* the Quick Find is replaced when it was found, the first pass runs and the
\* observer is registered
DetailInit(quickFindFound) ==
  /\ ~initialised
  /\ initialised' = TRUE
  /\ customQF' = [exists |-> quickFindFound, value |-> S_empty]
  /\ processPicklistRows
  /\ UNCHANGED <<pureVars, exportVars, pathId, table, mutations, uncaught>>

\* (mutant) the records are taken but no pass is started
ObserverCallback_noPass ==
  /\ mutations # <<>>
  /\ mutations' = <<>>
  /\ UNCHANGED <<rows, picklistReqs, reqCount, passesResolving>>
  /\ UNCHANGED <<pureVars, exportVars, pathId, table, initialised, customQF, uncaught>>

\* The MutationObserver callback, given the records gathered since the last
ObserverCallback ==
  /\ mutations # <<>>
  /\ mutations' = <<>>
  /\ IF \E i \in DOMAIN mutations : mutations[i] > 0
       THEN processPicklistRows
       ELSE UNCHANGED <<rows, picklistReqs, reqCount, passesResolving>>
  /\ UNCHANGED <<pureVars, exportVars, pathId, table, initialised, customQF, uncaught>>

\* The response to fetchCustomObjectApiName reaches a suspended pass
ResolveResponse(response) ==
  /\ passesResolving > 0
  /\ passesResolving' = passesResolving - 1
  /\ LET objectName == objectNameOf(response) IN
       /\ uncaught' = (uncaught \/ objectName.threw)
       /\ IF objectName.threw \/ objectName.name = <<>>
            THEN UNCHANGED <<rows, picklistReqs, reqCount>>
            ELSE passLoop(objectName.name)
  /\ UNCHANGED <<pureVars, exportVars, pathId, table, initialised, customQF, mutations>>

\* (mutant) response.error is read of whatever came
picklistFailure_unguarded(response) == [threw |-> ~response.present]

\* The else branch of the callback: console.error of response && response.error,
\* which reads nothing of a response that is not there
picklistFailure(response) == [threw |-> FALSE]

\* (mutant) the text is written to every row that waits for one
annotatedRows_shared(rs, row, picklistText) ==
  [id \in RowIds |->
     IF id = row \/ (rs[id].picklistFetched /\ rs[id].picklistText = <<>>)
       THEN [rs[id] EXCEPT !.picklistText = <<picklistText>>,
                           !.title = <<picklistText>>]
       ELSE rs[id]]

\* row.dataset.picklistText = picklistText, and the title of the label cell
annotatedRows(rs, row, picklistText) ==
  [rs EXCEPT ![row].picklistText = <<picklistText>>,
             ![row].title = <<picklistText>>]

\* (mutant) the filter is not run again after the annotation
refiltered_never(rs) == rs

\* if (customQF) onQuickFindInput({ target: { value: customQF.value } })
refiltered(rs) ==
  IF customQF.exists THEN onQuickFindInput(rs, customQF.value) ELSE rs

\* The callback of fetchPicklistValuesViaBackground
PicklistResponse(req, response) ==
  /\ req \in picklistReqs
  /\ picklistReqs' = picklistReqs \ {req}
  /\ IF response.present /\ response.success
       THEN LET picklistText ==
                  IF response.picklistText = <<>> THEN S_empty
                  ELSE response.picklistText[1]
                annotated == annotatedRows(rows, req.row, picklistText)
            IN /\ rows' = refiltered(annotated)
               /\ UNCHANGED uncaught
       ELSE /\ uncaught' = (uncaught \/ picklistFailure(response).threw)
            /\ UNCHANGED rows
  /\ UNCHANGED <<pureVars, exportVars, pathId, table, initialised, customQF, mutations,
                 passesResolving, reqCount>>

\* The user types: the input event of the custom Quick Find
InputEvent(value) ==
  /\ customQF.exists
  /\ customQF' = [customQF EXCEPT !.value = value]
  /\ rows' = onQuickFindInput(rows, value)
  /\ UNCHANGED <<pureVars, exportVars, pathId, table, initialised, mutations, passesResolving,
                 picklistReqs, reqCount, uncaught>>

PureIdle == call = [fn |-> "none"] /\ ret = <<>>

MaxObjects == 3
MaxExports == 2
ExportIds == 1..MaxExports

\* An export that has not been invoked
IdleExport ==
  [kind |-> "none", pc |-> "idle", pending |-> <<>>, objects |-> <<>>,
   data |-> <<>>, sheets |-> <<>>, usedSheetNames |-> <<>>, result |-> "none"]

ExportIdle ==
  /\ exports = [e \in ExportIds |-> IdleExport]
  /\ describeReqs = {}
  /\ resolveReqs = {}
  /\ downloads = <<>>
  /\ spinner = FALSE

DetailIdle ==
  /\ pathId = <<>>
  /\ table = <<>>
  /\ rows = [id \in RowIds |-> FreshRow]
  /\ initialised = FALSE
  /\ customQF = [exists |-> FALSE, value |-> S_empty]
  /\ mutations = <<>>
  /\ passesResolving = 0
  /\ picklistReqs = {}
  /\ reqCount = [id \in RowIds |-> 0]
  /\ uncaught = FALSE

Init ==
  /\ PureIdle
  /\ ExportIdle
  /\ pathId \in PathIds
  /\ table = <<>>
  /\ rows = [id \in RowIds |-> FreshRow]
  /\ initialised = FALSE
  /\ customQF = [exists |-> FALSE, value |-> S_empty]
  /\ mutations = <<>>
  /\ passesResolving = 0
  /\ picklistReqs = {}
  /\ reqCount = [id \in RowIds |-> 0]
  /\ uncaught = FALSE

Next ==
  \/ \E id \in RowIds : HostInsertRow(id)
  \/ HostRemoveNode
  \/ \E found \in BOOLEAN : DetailInit(found)
  \/ ObserverCallback
  \/ \E response \in ResolveResponses : ResolveResponse(response)
  \/ \E req \in picklistReqs : \E response \in PicklistResponses(req) :
       PicklistResponse(req, response)
  \/ \E value \in QueryValues : InputEvent(value)

Spec == Init /\ [][Next]_vars

\* LiveSpec: the detail page with a provider that resolves every identifier.
\* The browser delivers the mutation records it has gathered, and the
\* background page answers the resolution requests
Resolving == {r \in ResolveResponses : r.present /\ r.success}

Resolved == \E response \in Resolving : ResolveResponse(response)

\* What the user types while rows are being inserted
LiveQueryValues == {S_empty, Q_Active}

LiveNext ==
  \/ \E id \in RowIds : HostInsertRow(id)
  \/ HostRemoveNode
  \/ \E found \in BOOLEAN : DetailInit(found)
  \/ ObserverCallback
  \/ Resolved
  \/ \E req \in picklistReqs : \E response \in PicklistResponses(req) :
       PicklistResponse(req, response)
  \/ \E value \in LiveQueryValues : InputEvent(value)

LiveSpec ==
  /\ Init
  /\ [][LiveNext]_vars
  /\ WF_vars(ObserverCallback)
  /\ WF_vars(Resolved)

-----------------------------------------------------------------------------
(* The exports of the home page: all objects, and the objects selected in   *)
(* the modal. Each invocation has its own workbook and its own list of used *)
(* sheet names; the spinner element is shared.                              *)

\* A cell of a sheet: a string or a number
Str(s) == [str |-> s]
Num(n) == [num |-> n]

\* The label of which 31 characters fit a sheet name, and those 31 characters
S_LongLabel ==
  <<"C", "u", "s", "t", "o", "m", "e", "r", " ", "S", "a", "t", "i", "s", "f",
    "a", "c", "t", "i", "o", "n", " ", "S", "u", "r", "v", "e", "y", " ", "R",
    "e", "s", "u", "l", "t">>
S_CutLabel == SubSeq(S_LongLabel, 1, 31)
S_Survey__c == <<"S", "u", "r", "v", "e", "y", "_", "_", "c">>
S_Survey2__c == <<"S", "u", "r", "v", "e", "y", "2", "_", "_", "c">>
S_Account1__c == S_Account1 \o S_customSuffix
S_Owner == <<"O", "w", "n", "e", "r">>
S_OwnerId == <<"O", "w", "n", "e", "r", "I", "d">>

\* The objects the selection modal can hand over
ObjectPool ==
  { [objectLabel |-> S_Account, objectApiName |-> S_Account],
    [objectLabel |-> S_Account1, objectApiName |-> S_Account1__c],
    [objectLabel |-> S_LongLabel, objectApiName |-> S_Survey__c],
    [objectLabel |-> S_CutLabel, objectApiName |-> S_Survey2__c] }

RECURSIVE SeqsUpTo(_, _)
SeqsUpTo(S, n) ==
  IF n = 0 THEN {<<>>}
  ELSE LET shorter == SeqsUpTo(S, n - 1)
       IN shorter \cup {Append(q, x) : q \in shorter, x \in S}

SelectableLists == SeqsUpTo(ObjectPool, MaxObjects)

\* The rows of the home page table: the text of the first td when there is
\* one, and the identifier in the href of the row's link when there is one
HomeRowPool ==
  { [label |-> <<S_Account \o S_space>>, link |-> <<S_Account>>],
    [label |-> <<>>, link |-> <<S_ObjectId>>],
    [label |-> <<S_Section>>, link |-> <<>>] }

HomeTables == SeqsUpTo(HomeRowPool, MaxObjects)

\* The field descriptions the background page returns for an object
fieldsOf(objectApiName) ==
  IF objectApiName = S_Account
    THEN << [fieldLabel |-> S_Name, fieldApiName |-> S_Name, fieldType |-> S_string,
             fieldLength |-> 120, picklistValues |-> S_empty],
            [fieldLabel |-> S_Type, fieldApiName |-> S_Type, fieldType |-> S_picklist,
             fieldLength |-> 0, picklistValues |-> S_Hot] >>
  ELSE IF objectApiName = S_Account1__c
    THEN <<>>
  ELSE IF objectApiName = S_Survey__c
    THEN << [fieldLabel |-> S_Status, fieldApiName |-> S_Status__c,
             fieldType |-> S_Picklist, fieldLength |-> Absent,
             picklistValues |-> S_ActiveInactive] >>
  ELSE << [fieldLabel |-> S_Owner, fieldApiName |-> S_OwnerId,
           fieldType |-> S_reference, fieldLength |-> 18,
           picklistValues |-> S_empty] >>

\* What the background page can answer to fetchObjectDescribe: the fields, a
\* success without fields, a failure, or no response object at all
DescribeResponses(objectApiName) ==
  { [present |-> TRUE, success |-> TRUE, fields |-> <<fieldsOf(objectApiName)>>],
    [present |-> TRUE, success |-> TRUE, fields |-> <<>>],
    [present |-> TRUE, success |-> FALSE, fields |-> <<>>],
    [present |-> FALSE, success |-> FALSE, fields |-> <<>>] }

DescribeKinds == {"fields", "noFields", "failure", "none"}
describeKind(response) ==
  IF ~response.present THEN "none"
  ELSE IF ~response.success THEN "failure"
  ELSE IF response.fields = <<>> THEN "noFields"
  ELSE "fields"

headerRow ==
  <<Str(S_FieldLabel), Str(S_APIName), Str(S_FieldType), Str(S_FieldLength),
    Str(S_PicklistValues)>>

\* (mutant) the length is pushed as it is, absent or zero too
fieldRow_rawLength(field) ==
  << Str(field.fieldLabel),
     Str(field.fieldApiName),
     Str(mapFieldTypeForExport(field.fieldType, field.fieldLength)),
     Num(field.fieldLength),
     Str(field.picklistValues) >>

\* The row pushed for one field of a describe response
fieldRow(field) ==
  << Str(field.fieldLabel),
     Str(field.fieldApiName),
     Str(mapFieldTypeForExport(field.fieldType, field.fieldLength)),
     IF truthyLength(field.fieldLength) THEN Num(field.fieldLength) ELSE Str(S_empty),
     Str(field.picklistValues) >>

\* The row pushed when the response cannot be used
errorRow(obj) ==
  <<Str(obj.objectLabel), Str(obj.objectApiName), Str(S_ErrorFetchingFields),
    Str(S_empty), Str(S_empty)>>

\* (mutant) a response that cannot be used leaves the header alone
describeData_headerOnly(obj, response) ==
  <<headerRow>> \o
  (IF response.present /\ response.success /\ response.fields # <<>>
     THEN [i \in 1..Len(response.fields[1]) |-> fieldRow(response.fields[1][i])]
     ELSE <<>>)

\* data, as built from the response for obj
describeData(obj, response) ==
  <<headerRow>> \o
  (IF response.present /\ response.success /\ response.fields # <<>>
     THEN [i \in 1..Len(response.fields[1]) |-> fieldRow(response.fields[1][i])]
     ELSE <<errorRow(obj)>>)

\* sheetName: the label cut to 31 characters, made unique among the used names
sheetNameFor(obj, usedSheetNames) ==
  LET sheetName == IF Len(obj.objectLabel) > SheetNameLimit
                     THEN substring0(obj.objectLabel, SheetNameLimit)
                     ELSE obj.objectLabel
  IN getUniqueSheetName(sheetName, usedSheetNames)

\* (mutant) the name is not recorded as used
pushUsed_forgotten(usedSheetNames, sheetName) == usedSheetNames

\* usedSheetNames.push(sheetName)
pushUsed(usedSheetNames, sheetName) == Append(usedSheetNames, sheetName)

\* (mutant) the selected-objects export does not make its names unique
appendSheet_selectedAsLabelled(x, index, response) ==
  LET obj == x.objects[index]
      sheetName == sheetNameFor(obj, IF x.kind = "selected" THEN <<>>
                                     ELSE x.usedSheetNames)
  IN [x EXCEPT
        !.usedSheetNames = pushUsed(@, sheetName),
        !.sheets = Append(@, [name |-> sheetName,
                              data |-> describeData(obj, response),
                              of |-> index,
                              answer |-> describeKind(response)])]

\* (mutant) one list of used names for every export invocation
appendSheet_sharedNames(x, index, response) ==
  LET obj == x.objects[index]
      all == UNION {Range(exports[e].usedSheetNames) : e \in ExportIds}
      shared == CHOOSE q \in [1..Cardinality(all) -> all] : Range(q) = all
      sheetName == sheetNameFor(obj, shared)
  IN [x EXCEPT
        !.usedSheetNames = pushUsed(@, sheetName),
        !.sheets = Append(@, [name |-> sheetName,
                              data |-> describeData(obj, response),
                              of |-> index,
                              answer |-> describeKind(response)])]

\* The body of the for loop after the response: the export with the sheet of
\* object `index` named and appended (of and answer record what it was built from)
appendSheet(x, index, response) ==
  LET obj == x.objects[index]
      sheetName == sheetNameFor(obj, x.usedSheetNames)
  IN [x EXCEPT
        !.usedSheetNames = pushUsed(@, sheetName),
        !.sheets = Append(@, [name |-> sheetName,
                              data |-> describeData(obj, response),
                              of |-> index,
                              answer |-> describeKind(response)])]

\* (mutant) every request is sent before the first response is awaited
nextRequests_allAtOnce(e, objects, index) ==
  IF index = 1
    THEN {[export |-> e, index |-> i, objectApiName |-> objects[i].objectApiName] :
            i \in DOMAIN objects}
    ELSE {}

\* (mutant) the request of the object before is sent once more
nextRequests_retryPrevious(e, objects, index) ==
  {[export |-> e, index |-> i, objectApiName |-> objects[i].objectApiName] :
     i \in {index, Max(index - 1, 1)}}

\* The fetchObjectDescribe messages sent at the top of iteration `index`
nextRequests(e, objects, index) ==
  {[export |-> e, index |-> index, objectApiName |-> objects[index].objectApiName]}

exportFilename(kind) == IF kind = "all" THEN "all" ELSE "selected"

\* The for loop over the objects from iteration `index` on, up to the next
\* await or, past the last object, the write and the finally block
describeLoop(e, x, index, spin, reqs) ==
  IF index <= Len(x.objects)
    THEN /\ exports' = [exports EXCEPT ![e] = [x EXCEPT !.pc = "describe"]]
         /\ describeReqs' = reqs \cup nextRequests(e, x.objects, index)
         /\ spinner' = spin
         /\ UNCHANGED downloads
    ELSE /\ exports' = [exports EXCEPT ![e] =
                          [x EXCEPT !.pc = "done", !.result = "written"]]
         /\ downloads' = Append(downloads, [export |-> e,
                                            filename |-> exportFilename(x.kind),
                                            sheets |-> x.sheets])
         /\ spinner' = FALSE
         /\ describeReqs' = reqs

\* 3) exportSelectedObjectsToXLSX(selectedObjects), up to its first await
StartSelected(e, selectedObjects) ==
  /\ exports[e].pc = "idle"
  /\ describeLoop(e, [IdleExport EXCEPT !.kind = "selected",
                                        !.objects = selectedObjects],
                  1, TRUE, describeReqs)
  /\ UNCHANGED <<pureVars, detailVars, resolveReqs>>

\* The loop over the rows of the home page up to a row whose identifier has to
\* be resolved: rows without a link are passed over
RECURSIVE buildObjects(_, _)
buildObjects(pending, objects) ==
  IF pending = <<>> THEN [pending |-> <<>>, objects |-> objects]
  ELSE LET row == Head(pending) IN
    IF row.link = <<>> THEN buildObjects(Tail(pending), objects)
    ELSE IF isSalesforceId(row.link[1])
      THEN [pending |-> pending, objects |-> objects]
    ELSE buildObjects(Tail(pending),
                      Append(objects, [objectLabel |->
                                         IF row.label = <<>> THEN row.link[1]
                                         ELSE trim(row.label[1]),
                                       objectApiName |-> row.link[1]]))

\* exportFullDatabaseToXLSX from the row loop on
allContinue(e, x, spin) ==
  LET built == buildObjects(x.pending, x.objects)
      y == [x EXCEPT !.pending = built.pending, !.objects = built.objects]
  IN IF built.pending # <<>>
       THEN /\ exports' = [exports EXCEPT ![e] = [y EXCEPT !.pc = "resolve"]]
            /\ resolveReqs' = resolveReqs \cup
                 {[export |-> e, objectId |-> Head(built.pending).link[1]]}
            /\ spinner' = spin
            /\ UNCHANGED <<describeReqs, downloads>>
       ELSE /\ describeLoop(e, y, 1, spin, describeReqs)
            /\ UNCHANGED resolveReqs

\* exportFullDatabaseToXLSX once the table body is there, with its rows
allFromTable(e, homeRows, spin) ==
  IF homeRows = <<>>
    THEN /\ exports' = [exports EXCEPT ![e] =
                          [IdleExport EXCEPT !.kind = "all", !.pc = "done",
                                             !.result = "noRows"]]
         /\ spinner' = FALSE
         /\ UNCHANGED <<describeReqs, resolveReqs, downloads>>
    ELSE allContinue(e, [IdleExport EXCEPT !.kind = "all", !.pending = homeRows],
                     spin)

\* 2) exportFullDatabaseToXLSX(), up to its first await: the table body is
\* there with its rows, or the export waits for it
StartAll(e, present, homeRows) ==
  /\ exports[e].pc = "idle"
  /\ IF present
       THEN allFromTable(e, homeRows, TRUE)
       ELSE /\ exports' = [exports EXCEPT ![e] =
                             [IdleExport EXCEPT !.kind = "all", !.pc = "waitTable"]]
            /\ spinner' = TRUE
            /\ UNCHANGED <<describeReqs, resolveReqs, downloads>>
  /\ UNCHANGED <<pureVars, detailVars>>

\* waitForElement resolves: the table body has appeared
TableAppears(e, homeRows) ==
  /\ exports[e].pc = "waitTable"
  /\ allFromTable(e, homeRows, spinner)
  /\ UNCHANGED <<pureVars, detailVars>>

\* (mutant) the rejection is caught but the spinner is left in the document
WaitTimeout_spinnerLeft(e) ==
  /\ exports[e].pc = "waitTable"
  /\ exports' = [exports EXCEPT ![e].pc = "done", ![e].result = "aborted"]
  /\ UNCHANGED <<pureVars, detailVars, describeReqs, resolveReqs, downloads, spinner>>

\* waitForElement rejects after its timeout: catch, then finally
WaitTimeout(e) ==
  /\ exports[e].pc = "waitTable"
  /\ exports' = [exports EXCEPT ![e].pc = "done", ![e].result = "aborted"]
  /\ spinner' = FALSE
  /\ UNCHANGED <<pureVars, detailVars, describeReqs, resolveReqs, downloads>>

\* The response to fetchCustomObjectApiName for a row of the home page: the
\* name is taken on success, the identifier kept on a failure; reading
\* response.error of no response throws, and the catch ends the export
AllResolveResponse(req, response) ==
  /\ req \in resolveReqs
  /\ LET e == req.export
         x == exports[e]
         row == Head(x.pending)
         objectApiName == IF response.success THEN response.apiName ELSE req.objectId
         obj == [objectLabel |-> IF row.label = <<>> THEN objectApiName
                                 ELSE trim(row.label[1]),
                 objectApiName |-> objectApiName]
     IN IF ~response.present
          THEN /\ exports' = [exports EXCEPT ![e].pc = "done",
                                             ![e].result = "aborted"]
               /\ resolveReqs' = resolveReqs \ {req}
               /\ spinner' = FALSE
               /\ UNCHANGED <<describeReqs, downloads>>
          ELSE \E after \in {resolveReqs \ {req}} :
                 LET built == buildObjects(Tail(x.pending), Append(x.objects, obj))
                     y == [x EXCEPT !.pending = built.pending,
                                    !.objects = built.objects]
                 IN IF built.pending # <<>>
                      THEN /\ exports' = [exports EXCEPT ![e] = y]
                           /\ resolveReqs' = after \cup
                                {[export |-> e,
                                  objectId |-> Head(built.pending).link[1]]}
                           /\ UNCHANGED <<describeReqs, downloads, spinner>>
                      ELSE /\ describeLoop(e, y, 1, spinner, describeReqs)
                           /\ resolveReqs' = after
  /\ UNCHANGED <<pureVars, detailVars>>

\* The response to fetchObjectDescribe: the sheet of the object is built, named
\* and appended, and the loop goes on
DescribeResponse(req, response) ==
  /\ req \in describeReqs
  /\ describeLoop(req.export, appendSheet(exports[req.export], req.index, response),
                  req.index + 1, spinner, describeReqs \ {req})
  /\ UNCHANGED <<pureVars, detailVars, resolveReqs>>

\* The export triggers and responses, for the given export invocations, lists
\* of selected objects, home page tables and kinds of describe responses
ExportNextOver(slots, lists, tables, kinds) ==
  \/ \E e \in slots : \E list \in lists : StartSelected(e, list)
  \/ \E e \in slots : \E present \in BOOLEAN : \E homeRows \in tables :
       StartAll(e, present, homeRows)
  \/ \E e \in slots : \E homeRows \in tables : TableAppears(e, homeRows)
  \/ \E e \in slots : WaitTimeout(e)
  \/ \E req \in resolveReqs : \E response \in ResolveResponses :
       AllResolveResponse(req, response)
  \/ \E req \in describeReqs :
       \E response \in {r \in DescribeResponses(req.objectApiName) :
                          describeKind(r) \in kinds} :
         DescribeResponse(req, response)

\* ExportSpec: one export invocation, over every list and table of the bounds
ExportInit == PureIdle /\ DetailIdle /\ ExportIdle

ExportNext == ExportNextOver({1}, SelectableLists, HomeTables, DescribeKinds)

ExportSpec == ExportInit /\ [][ExportNext]_vars

\* ExportLiveSpec: ExportSpec where every callback is eventually called: the
\* provider answers every request, with a response or with none, and
\* waitForElement resolves or rejects when its timeout runs out
DescribeAnswered ==
  \E req \in describeReqs : \E response \in DescribeResponses(req.objectApiName) :
    DescribeResponse(req, response)

ResolveAnswered ==
  \E req \in resolveReqs : \E response \in ResolveResponses :
    AllResolveResponse(req, response)

TableWaitEnds ==
  \/ \E homeRows \in HomeTables : TableAppears(1, homeRows)
  \/ WaitTimeout(1)

\* The lists handed over are those of two objects, of any length of the bound
LiveLists ==
  SeqsUpTo({o \in ObjectPool : o.objectApiName \in {S_Account, S_Survey__c}},
           MaxObjects)

ExportLiveNext == ExportNextOver({1}, LiveLists, HomeTables, DescribeKinds)

ExportLiveSpec ==
  /\ ExportInit
  /\ [][ExportLiveNext]_vars
  /\ WF_vars(DescribeAnswered)
  /\ WF_vars(ResolveAnswered)
  /\ WF_vars(TableWaitEnds)

\* ConcSpec: export invocations that overlap in time, over lists and tables
\* whose labels collide; the last list is what the last table gives
ConcLists ==
  { <<[objectLabel |-> S_Account, objectApiName |-> S_Account],
      [objectLabel |-> S_Account, objectApiName |-> S_Account]>>,
    <<[objectLabel |-> S_Account, objectApiName |-> S_Account],
      [objectLabel |-> S_Account1, objectApiName |-> S_Account1__c]>>,
    <<[objectLabel |-> S_Account, objectApiName |-> S_Account],
      [objectLabel |-> S_Account, objectApiName |-> S_Account1__c]>> }

ConcTables ==
  { <<[label |-> <<S_Account>>, link |-> <<S_Account>>],
      [label |-> <<S_Account>>, link |-> <<S_ObjectId>>]>>,
    <<[label |-> <<S_Account>>, link |-> <<S_Account>>],
      [label |-> <<S_Account>>, link |-> <<S_Account1__c>>]>> }

ConcNext == ExportNextOver(ExportIds, ConcLists, ConcTables, {"fields", "none"})

ConcSpec == ExportInit /\ [][ConcNext]_vars

-----------------------------------------------------------------------------
(* The export of the detail page: the rows of the current object, read from *)
(* the rendered table, in a workbook of one sheet                            *)

S_Object == <<"O", "b", "j", "e", "c", "t">>

\* An API name of which 31 characters fit a sheet name
S_LongApiName ==
  <<"C", "u", "s", "t", "o", "m", "e", "r", "_", "S", "a", "t", "i", "s", "f",
    "a", "c", "t", "i", "o", "n", "_", "S", "u", "r", "v", "e", "y", "_", "R",
    "e", "s", "u", "l", "t", "_", "_", "c">>

\* The length the current-object export passes to mapFieldTypeForExport
CurrentFieldLength == 500

currentHeaderRow ==
  <<Str(S_FieldLabel), Str(S_APIName), Str(S_FieldType), Str(S_PicklistValues)>>

\* (mutant) the type text is exported as rendered
currentRow_rawType(row, cells) ==
  << Str(trim(cells[1])),
     Str(trim(cells[2])),
     Str(trim(cells[3])),
     Str(trim(annotationOf(row))) >>

\* The row pushed for a rendered row of at least three cells
currentRow(row, cells) ==
  << Str(trim(cells[1])),
     Str(trim(cells[2])),
     Str(mapFieldTypeForExport(trim(cells[3]), CurrentFieldLength)),
     Str(trim(annotationOf(row))) >>

\* data, as read from the rows of the table body
currentData(tbl, rs) ==
  LET kept == SelectSeq(tbl, LAMBDA id : Len(RowCells[id]) >= 3)
  IN <<currentHeaderRow>> \o
     [i \in 1..Len(kept) |-> currentRow(rs[kept[i]], RowCells[kept[i]])]

\* (mutant) the rows are read once more when the object name is there
currentWrite_readAgain(e, x, name, reqs, how) ==
  LET objectName == IF name = <<>> THEN S_Object ELSE name
      sheetName == IF Len(objectName) > SheetNameLimit
                     THEN substring0(objectName, SheetNameLimit)
                     ELSE objectName
      sheets == <<[name |-> sheetName, data |-> currentData(table, rows), of |-> 1,
                   answer |-> how]>>
  IN /\ exports' = [exports EXCEPT ![e] =
                      [x EXCEPT !.pc = "done", !.result = "written",
                                !.sheets = sheets]]
     /\ downloads' = Append(downloads, [export |-> e, filename |-> "current",
                                        objectName |-> objectName,
                                        sheets |-> sheets])
     /\ spinner' = FALSE
     /\ resolveReqs' = reqs

\* From the object name on: one sheet, the write, the finally block. name is
\* what getObjectApiNameFromURL returned, <<>> for null (answer records how the
\* name was obtained)
currentWrite(e, x, name, reqs, how) ==
  LET objectName == IF name = <<>> THEN S_Object ELSE name
      sheetName == IF Len(objectName) > SheetNameLimit
                     THEN substring0(objectName, SheetNameLimit)
                     ELSE objectName
      sheets == <<[name |-> sheetName, data |-> x.data, of |-> 1,
                   answer |-> how]>>
  IN /\ exports' = [exports EXCEPT ![e] =
                      [x EXCEPT !.pc = "done", !.result = "written",
                                !.sheets = sheets]]
     /\ downloads' = Append(downloads, [export |-> e, filename |-> "current",
                                        objectName |-> objectName,
                                        sheets |-> sheets])
     /\ spinner' = FALSE
     /\ resolveReqs' = reqs

\* exportCurrentObjectFieldsToXLSX once the table body is there: the rows are
\* read, then the object name is asked for
currentFromTable(e) ==
  LET x == [IdleExport EXCEPT !.kind = "current", !.data = currentData(table, rows)]
  IN IF pathId # <<>> /\ isSalesforceId(pathId)
       THEN /\ exports' = [exports EXCEPT ![e] = [x EXCEPT !.pc = "resolve"]]
            /\ resolveReqs' = resolveReqs \cup {[export |-> e, objectId |-> pathId]}
            /\ spinner' = TRUE
            /\ UNCHANGED downloads
       ELSE currentWrite(e, x, pathId, resolveReqs,
                         IF pathId = <<>> THEN "noIdentifier" ELSE "path")

\* 1) exportCurrentObjectFieldsToXLSX(), up to its first suspension: the table
\* body is there, or the export waits for it
StartCurrent(e, present) ==
  /\ exports[e].pc = "idle"
  /\ IF present
       THEN currentFromTable(e)
       ELSE /\ exports' = [exports EXCEPT ![e] =
                             [IdleExport EXCEPT !.kind = "current",
                                                !.pc = "waitTable"]]
            /\ spinner' = TRUE
            /\ UNCHANGED <<resolveReqs, downloads>>
  /\ UNCHANGED <<pureVars, detailVars, describeReqs>>

\* waitForElement resolves for the current-object export
CurrentTableAppears(e) ==
  /\ exports[e].pc = "waitTable"
  /\ exports[e].kind = "current"
  /\ currentFromTable(e)
  /\ UNCHANGED <<pureVars, detailVars, describeReqs>>

\* The response to fetchCustomObjectApiName reaches the export: the name, null
\* after a failure, or the TypeError, which the catch of the export takes
CurrentResolveResponse(req, response) ==
  /\ req \in resolveReqs
  /\ exports[req.export].kind = "current"
  /\ LET objectName == objectNameOf(response) IN
       IF objectName.threw
         THEN /\ exports' = [exports EXCEPT ![req.export].pc = "done",
                                            ![req.export].result = "aborted"]
              /\ resolveReqs' = resolveReqs \ {req}
              /\ spinner' = FALSE
              /\ UNCHANGED downloads
         ELSE currentWrite(req.export, exports[req.export], objectName.name,
                           resolveReqs \ {req},
                           IF response.success THEN "resolved" ELSE "failure")
  /\ UNCHANGED <<pureVars, detailVars, describeReqs>>

\* CurrentSpec: one current-object export on a detail page whose rows the
\* passes have left in any of the states they can leave them in
CurrentPathIds == PathIds \cup {S_LongApiName}

CurrentTables ==
  {t \in SeqsUpTo(RowIds, MaxRows) :
     \A i, j \in DOMAIN t : i # j => t[i] # t[j]}

\* The row a pass has processed and, for a picklist, its request answered
answeredRow(id) ==
  LET picklistText == picklistValuesOf(trim(RowCells[id][2])) IN
  [processedRow(FreshRow, id) EXCEPT !.picklistText = <<picklistText>>,
                                     !.title = <<picklistText>>]

CurrentInit ==
  /\ PureIdle
  /\ ExportIdle
  /\ pathId \in CurrentPathIds
  /\ table \in CurrentTables
  /\ \E passed \in SUBSET {id \in Range(table) : Len(RowCells[id]) >= 3} :
     \E answered \in SUBSET {id \in passed : isPicklistRow(id)} :
       LET asked == {id \in passed : isPicklistRow(id)}
           objectName == IF isSalesforceId(pathId) THEN S_Invoice__c ELSE pathId
       IN /\ pathId = <<>> => passed = {}
          /\ rows = [id \in RowIds |->
                       IF id \in answered THEN answeredRow(id)
                       ELSE IF id \in passed THEN processedRow(FreshRow, id)
                       ELSE FreshRow]
          /\ picklistReqs = {picklistRequest(id, objectName) : id \in asked \ answered}
          /\ reqCount = [id \in RowIds |-> IF id \in asked THEN 1 ELSE 0]
  /\ initialised = TRUE
  /\ customQF = [exists |-> TRUE, value |-> S_empty]
  /\ mutations = <<>>
  /\ passesResolving = 0
  /\ uncaught = FALSE

CurrentNext ==
  \/ \E present \in BOOLEAN : StartCurrent(1, present)
  \/ CurrentTableAppears(1)
  \/ WaitTimeout(1)
  \/ \E req \in resolveReqs : \E response \in ResolveResponses :
       CurrentResolveResponse(req, response)
  \/ \E req \in picklistReqs : \E response \in PicklistResponses(req) :
       PicklistResponse(req, response)

CurrentSpec == CurrentInit /\ [][CurrentNext]_vars

\* PageSpec: one export invocation on either page: the exports of the home
\* page, or the export of a detail page that has been initialised
PageInit == ExportInit \/ CurrentInit

PageNext ==
  \/ ~initialised /\ ExportNext
  \/ initialised /\ CurrentNext

PageSpec == PageInit /\ [][PageNext]_vars

-----------------------------------------------------------------------------
(* Bounded inputs of the pure functions                                     *)

MaxSuffix == 10
MaxFieldLength == 130

\* Sheet names as the exports pass them: labels already cut to 31 characters,
\* among them names of 29..31 characters and one whose 30th character is a digit
SheetNames ==
  { S_Account, <<"A">>, Rep("a", 29), Rep("a", 30), Rep("a", 31),
    Rep("a", 29) \o <<"1", "x">> }

\* The names a run of collisions on sheetName leaves in the list
CollisionPool(sheetName) ==
  {sheetName, S_Contact} \cup
  { substring0(sheetName, SheetNameLimit - Len(toString(k))) \o toString(k) :
      k \in 1..MaxSuffix }

RECURSIVE SetToSeq(_)
SetToSeq(S) ==
  IF S = {} THEN <<>>
  ELSE LET x == CHOOSE y \in S : TRUE IN <<x>> \o SetToSeq(S \ {x})

RawTypes ==
  { S_empty, S_reference, S_Reference, S_REFERENCE, S_double, S_Double,
    S_string, S_String, S_STRING, S_checkbox, S_Checkbox, S_Picklist,
    S_picklist, S_strings, S_dATE, S_9x }

FieldLengths == {Absent} \cup 0..MaxFieldLength

-----------------------------------------------------------------------------
(* SheetSpec: getUniqueSheetName applied to bounded inputs                  *)

SheetInit ==
  /\ \E n \in SheetNames : \E U \in SUBSET CollisionPool(n) :
       call = [fn |-> "getUniqueSheetName", sheetName |-> n,
               existingNames |-> SetToSeq(U), given |-> SetToSeq(U)]
  /\ ret = <<>>
  /\ DetailIdle
  /\ ExportIdle

\* The call returns; the function never writes to the array it was given
CallGetUniqueSheetName ==
  /\ call.fn = "getUniqueSheetName"
  /\ ret = <<>>
  /\ ret' = <<getUniqueSheetName(call.sheetName, call.existingNames)>>
  /\ UNCHANGED <<call, detailVars, exportVars>>

SheetNext == CallGetUniqueSheetName

SheetSpec == SheetInit /\ [][SheetNext]_vars

-----------------------------------------------------------------------------
(* MapSpec: mapFieldTypeForExport applied to bounded inputs                 *)

MapInit ==
  /\ \E t \in RawTypes : \E l \in FieldLengths :
       call = [fn |-> "mapFieldTypeForExport", fieldType |-> t, fieldLength |-> l]
  /\ ret = <<>>
  /\ DetailIdle
  /\ ExportIdle

CallMapFieldTypeForExport ==
  /\ call.fn = "mapFieldTypeForExport"
  /\ ret = <<>>
  /\ ret' = <<mapFieldTypeForExport(call.fieldType, call.fieldLength)>>
  /\ UNCHANGED <<call, detailVars, exportVars>>

MapNext == CallMapFieldTypeForExport

MapSpec == MapInit /\ [][MapNext]_vars

-----------------------------------------------------------------------------
(* LoopSpec: the while loop of getUniqueSheetName, one test or one          *)
(* iteration a step. The function is synchronous: once called it runs to    *)
(* its return, so its steps are taken as long as there is one to take.      *)

MaxIterations == 40

\* let uniqueName = sheetName; let suffix = 1
loopEntry(sheetName, existingNames) ==
  [fn |-> "uniqueNameLoop", sheetName |-> sheetName,
   existingNames |-> existingNames, uniqueName |-> sheetName, suffix |-> 1]

\* existingNames.includes(uniqueName)
loopTest(c) == arrayIncludes(c.existingNames, c.uniqueName)

\* (mutant) the suffix is not incremented
loopBody_suffixKept(c) ==
  LET base == substring0(c.sheetName, SheetNameLimit - Len(toString(c.suffix)))
  IN [c EXCEPT !.uniqueName = base \o toString(c.suffix)]

\* The body of the while loop
loopBody(c) ==
  LET base == substring0(c.sheetName, SheetNameLimit - Len(toString(c.suffix)))
  IN [c EXCEPT !.uniqueName = base \o toString(c.suffix),
               !.suffix = c.suffix + 1]

LoopInit ==
  /\ \E n \in SheetNames : \E U \in SUBSET CollisionPool(n) :
       call = loopEntry(n, SetToSeq(U))
  /\ ret = <<>>
  /\ DetailIdle
  /\ ExportIdle

LoopIteration ==
  /\ call.fn = "uniqueNameLoop"
  /\ ret = <<>>
  /\ loopTest(call)
  /\ call.suffix <= MaxIterations
  /\ call' = loopBody(call)
  /\ UNCHANGED <<ret, detailVars, exportVars>>

LoopReturn ==
  /\ call.fn = "uniqueNameLoop"
  /\ ret = <<>>
  /\ ~loopTest(call)
  /\ ret' = <<call.uniqueName>>
  /\ UNCHANGED <<call, detailVars, exportVars>>

LoopNext == LoopIteration \/ LoopReturn

LoopSpec == LoopInit /\ [][LoopNext]_vars /\ WF_vars(LoopNext)

-----------------------------------------------------------------------------
(* Vocabulary of the properties, stated without the operators of the model  *)

\* Two characters that are the same up to the case of a letter
LetterPairs ==
  {<<UpperChars[i], LowerChars[i]>> : i \in DOMAIN UpperChars}
    \cup {<<LowerChars[i], UpperChars[i]>> : i \in DOMAIN UpperChars}
SameLetter(a, b) == a = b \/ <<a, b>> \in LetterPairs

EqualsIgnoreCase(s, t) ==
  /\ Len(s) = Len(t)
  /\ \A i \in 1..Len(s) : SameLetter(s[i], t[i])

\* q occurs in s, letters compared without their case
ContainsIgnoreCase(s, q) ==
  \E i \in 1..(Len(s) + 1) :
    /\ i + Len(q) - 1 <= Len(s)
    /\ EqualsIgnoreCase(SubSeq(s, i, i + Len(q) - 1), q)

\* The decimal numeral of k < 1000 and the number of its digits
NumDigits(k) == IF k < 10 THEN 1 ELSE IF k < 100 THEN 2 ELSE 3
Numeral(k) ==
  IF k < 10 THEN <<DigitChars[k + 1]>>
  ELSE IF k < 100 THEN <<DigitChars[(k \div 10) + 1], DigitChars[(k % 10) + 1]>>
  ELSE <<DigitChars[(k \div 100) + 1], DigitChars[((k \div 10) % 10) + 1],
         DigitChars[(k % 10) + 1]>>

\* The k-th candidate for a colliding sheet name
Candidate(name, k) ==
  LET keep == 31 - NumDigits(k) IN
  (IF Len(name) <= keep THEN name ELSE SubSeq(name, 1, keep)) \o Numeral(k)

InList(x, list) == \E i \in DOMAIN list : list[i] = x

\* The query the filter works with, for each value the user can type
NormalQuery(value) ==
  CASE value = S_empty -> <<>>
    [] value = Q_Pick -> <<"p", "i", "c", "k">>
    [] value = Q_Active -> <<"a", "c", "t", "i", "v", "e">>
    [] value = Q_sa -> <<"s", " ", "a">>
    [] value = Q_custom -> <<"_", "_", "c">>

\* The rendered rows the filter and the passes look at
FieldRows == {id \in Range(table) : Len(RowCells[id]) >= 3}

AnnotationText(id) ==
  IF rows[id].picklistText = <<>> THEN <<>> ELSE rows[id].picklistText[1]

\* The verdict of the specified filter on a row with annotation a
ShouldBeVisible(id, a, q) ==
  \/ q = <<>>
  \/ ContainsIgnoreCase(RowCells[id][1] \o <<" ">> \o a, q)
  \/ ContainsIgnoreCase(RowCells[id][2], q)
  \/ ContainsIgnoreCase(RowCells[id][3], q)

\* The same verdict for every row of three cells, every annotation a response
\* can leave on a row and every value the user can type
SpecifiedVerdict ==
  [id \in {i \in RowIds : Len(RowCells[i]) >= 3},
   a \in {S_empty, S_ActiveInactive, S_Hot},
   value \in QueryValues |-> ShouldBeVisible(id, a, NormalQuery(value))]

Outstanding(id) == \E req \in picklistReqs : req.row = id

-----------------------------------------------------------------------------
(* C1: over any sequence of enrichment passes, overlapping ones included,   *)
(* at most one picklist request is ever issued for a row; the processed     *)
(* mark of a row is never cleared, and a marked row is skipped by every     *)
(* later step: no request is issued for it again.                           *)

C1_AtMostOneRequest == \A id \in RowIds : reqCount[id] <= 1

C1_MarkedRowSkipped ==
  \A id \in RowIds :
    rows[id].picklistFetched =>
      /\ rows'[id].picklistFetched
      /\ reqCount'[id] = reqCount[id]
      /\ \A req \in picklistReqs' \ picklistReqs : req.row # id

\* C1: at most one request per row, and a marked row is skipped by every step
C1_OneRequestPerRow == []C1_AtMostOneRequest /\ [][C1_MarkedRowSkipped]_vars

\* Two passes are suspended on the object name while a row is already marked,
\* its one request still outstanding
C1_Witness ==
  /\ passesResolving = 2
  /\ rows[2].picklistFetched
  /\ reqCount[2] = 1
  /\ Outstanding(2)

-----------------------------------------------------------------------------
(* C3: getUniqueSheetName(name, used), for a name of at most 31 characters, *)
(* returns name when it is not in used; otherwise the first 31 - digits(k)  *)
(* characters of name followed by k, for the least k >= 1 whose candidate   *)
(* is not in used; used is left as it was. {"Account"} gives "Account1", a  *)
(* used name of 31 characters gives its first 30 characters and "1", and    *)
(* from suffix 10 on the base is cut to 29 characters.                      *)

C3_UniqueSheetName ==
  (call.fn = "getUniqueSheetName" /\ ret # <<>> /\ Len(call.sheetName) <= 31) =>
    LET name == call.sheetName
        used == call.given
        result == ret[1]
    IN /\ call.existingNames = used
       /\ ~InList(name, used) => result = name
       /\ InList(name, used) =>
            \E k \in 1..99 :
              /\ result = Candidate(name, k)
              /\ ~InList(result, used)
              /\ \A j \in 1..(k - 1) : InList(Candidate(name, j), used)
       /\ (name = S_Account /\ used = <<S_Account>>) => result = S_Account1
       /\ (Len(name) = 31 /\ used = <<name>>) =>
            result = SubSeq(name, 1, 30) \o <<"1">>
       /\ (Len(name) >= 29 /\ InList(name, used)
             /\ \A j \in 1..9 : InList(Candidate(name, j), used)) =>
            /\ SubSeq(result, 1, 29) = SubSeq(name, 1, 29)
            /\ Len(result) = 31
            /\ result[30] \in Range(DigitChars) /\ result[31] \in Range(DigitChars)

\* Nine collisions on a name of 31 characters: the result carries suffix 10
C3_Witness ==
  /\ call.fn = "getUniqueSheetName"
  /\ ret # <<>>
  /\ Len(call.sheetName) = 31
  /\ InList(call.sheetName, call.given)
  /\ ret[1] = SubSeq(call.sheetName, 1, 29) \o <<"1", "0">>

-----------------------------------------------------------------------------
(* C5: mapFieldTypeForExport is defined for every raw type (the empty one   *)
(* included) and every length (absent, zero, positive), and is the table,   *)
(* compared without case: "reference" gives "Lookup(User)", "double" gives  *)
(* "Number(4,0)", "string" gives "Text(<length>)" with 500 for an absent or *)
(* zero length; any other value comes back with its first character in      *)
(* upper case and the rest as it was.                                       *)

C5_FieldTypeTable ==
  /\ (call.fn = "mapFieldTypeForExport" /\ ret = <<>>) =>
       ENABLED CallMapFieldTypeForExport
  /\ (call.fn = "mapFieldTypeForExport" /\ ret # <<>>) =>
       LET t == call.fieldType
           l == call.fieldLength
           r == ret[1]
       IN /\ EqualsIgnoreCase(t, S_reference) => r = S_LookupUser
          /\ EqualsIgnoreCase(t, S_double) => r = S_Number40
          /\ EqualsIgnoreCase(t, S_string) =>
               r = <<"T", "e", "x", "t", "(">>
                     \o Numeral(IF l = Absent \/ l = 0 THEN 500 ELSE l) \o <<")">>
          /\ (~EqualsIgnoreCase(t, S_reference) /\ ~EqualsIgnoreCase(t, S_double)
                /\ ~EqualsIgnoreCase(t, S_string)) =>
               /\ Len(r) = Len(t)
               /\ \A i \in 2..Len(t) : r[i] = t[i]
               /\ Len(t) > 0 =>
                    /\ SameLetter(r[1], t[1])
                    /\ r[1] \notin Range(LowerChars)
          /\ t = S_Checkbox => r = S_Checkbox
          /\ t = S_Picklist => r = S_Picklist

\* "STRING" with no length has been mapped to "Text(500)"
C5_Witness ==
  /\ call.fn = "mapFieldTypeForExport"
  /\ call.fieldType = S_STRING
  /\ call.fieldLength = Absent
  /\ ret = << <<"T", "e", "x", "t", "(", "5", "0", "0", ")">> >>

-----------------------------------------------------------------------------
(* C6: after the filter has run for the typed query q (trimmed, in lower    *)
(* case), a rendered row of at least three cells is visible exactly when q  *)
(* is empty, or its label, a space and its annotation contain q, or its API *)
(* name contains q, or its type text contains q: substrings, no tokens.     *)

C6_FilterStep ==
  \A value \in QueryValues :
    (/\ customQF.exists
     /\ customQF'.value = value
     /\ UNCHANGED <<table, picklistReqs, passesResolving, mutations>>
     /\ InputEvent(value)) =>
      \A id \in FieldRows :
        (rows'[id].display = "") <=> SpecifiedVerdict[id, AnnotationText(id), value]

\* C6: every run of the filter leaves exactly the matching rows visible
C6_FilterVerdict == [][C6_FilterStep]_vars

\* "__C" was typed: the custom field is shown and the standard one hidden
C6_Witness ==
  /\ customQF.value = Q_custom
  /\ {1, 2} \subseteq Range(table)
  /\ rows[1].display = "none"
  /\ rows[2].display = ""

-----------------------------------------------------------------------------
(* C7: every row is visible under the empty query; and a row whose          *)
(* annotation becomes a text that contains q, its label, API name and type  *)
(* unchanged, is visible under q afterwards: an annotation that gains text  *)
(* matching q never hides a row.                                            *)

\* Annotations a response could bring
SomeAnnotations ==
  {S_empty, S_ActiveInactive, S_Hot, S_picklist, <<"x", "_", "_", "C">>,
   <<"P", "l", "u", "s", " ", "A">>}

\* The pairs of an annotation and a typed value whose query it contains
MatchingAnnotations ==
  {p \in SomeAnnotations \X QueryValues :
     ContainsIgnoreCase(p[1], NormalQuery(p[2]))}

\* The rows of three cells for which the test of the filter holds under every
\* blank value whatever the annotation, and under every value whose query the
\* annotation contains
AlwaysShownRows ==
  {id \in RowIds :
     /\ Len(RowCells[id]) >= 3
     /\ \A value \in {S_empty, <<" ">>, <<" ", " ">>} :
          /\ rowMatches(FreshRow, RowCells[id], toLowerCase(trim(value)))
          /\ \A a \in SomeAnnotations :
               rowMatches([FreshRow EXCEPT !.picklistText = <<a>>], RowCells[id],
                          toLowerCase(trim(value)))
     /\ \A p \in MatchingAnnotations :
          rowMatches([FreshRow EXCEPT !.picklistText = <<p[1]>>], RowCells[id],
                     toLowerCase(trim(p[2])))}

C7_VisibleIfAnnotated ==
  /\ FieldRows \subseteq AlwaysShownRows
  /\ \A id \in FieldRows : onQuickFindInput(rows, S_empty)[id].display = ""

C7_AnnotationStep ==
  \A req \in picklistReqs : \A response \in PicklistResponses(req) :
    (/\ customQF.exists
     /\ req \notin picklistReqs'
     /\ rows'[req.row].picklistText # <<>>
     /\ PicklistResponse(req, response)
     /\ req.row \in FieldRows
     /\ ContainsIgnoreCase(rows'[req.row].picklistText[1],
                           NormalQuery(customQF.value)))
    => rows'[req.row].display = ""

\* C7: visible under the empty query, and an annotation containing q never hides a row
C7_Monotone == []C7_VisibleIfAnnotated /\ [][C7_AnnotationStep]_vars

\* "Active" is the query and the Status row, which matches it by nothing but
\* its annotation, is shown
C7_Witness ==
  /\ customQF.value = Q_Active
  /\ 2 \in Range(table)
  /\ rows[2].picklistText = <<S_ActiveInactive>>
  /\ rows[2].display = ""

-----------------------------------------------------------------------------
(* C8: when the picklist request of a row fails (an unsuccessful response   *)
(* or none), the row stays marked with an empty annotation, no exception    *)
(* escapes the callback, no request is issued by it, the other rows are     *)
(* untouched; and no later step issues a request for the row again.         *)

\* A picklist row whose request has been answered by a failure
Failed(id) ==
  /\ rows[id].picklistFetched
  /\ reqCount[id] = 1
  /\ ~Outstanding(id)
  /\ rows[id].picklistText = <<>>

C8_FailureStep ==
  /\ \A req \in picklistReqs : \A response \in PicklistResponses(req) :
       (PicklistResponse(req, response) /\ ~(response.present /\ response.success))
       => /\ rows'[req.row].picklistFetched
          /\ AnnotationText(req.row)' = <<>>
          /\ uncaught' = uncaught
          /\ picklistReqs' = picklistReqs \ {req}
          /\ reqCount' = reqCount
          /\ \A id \in RowIds \ {req.row} : rows'[id] = rows[id]
          /\ Failed(req.row)'
  /\ \A id \in RowIds :
       Failed(id) => Failed(id)' /\ AnnotationText(id)' = <<>>

\* C8: a failed picklist request is absorbed: row marked, no annotation, no retry
C8_FailureAbsorbed == [][C8_FailureStep]_vars

\* The Status row has failed, and a later pass has since marked another row
C8_Witness ==
  /\ Failed(2)
  /\ table = <<2, 3>>
  /\ rows[3].picklistFetched
  /\ Outstanding(3)
  /\ pathId = S_ObjectId

-----------------------------------------------------------------------------
(* Vocabulary of the export properties                                      *)

Cut31(label) == IF Len(label) > 31 THEN SubSeq(label, 1, 31) ELSE label

\* The name a label is given when the names of the set used are taken
ExpectedName(label, used) ==
  LET name == Cut31(label) IN
  IF name \notin used THEN name
  ELSE Candidate(name, CHOOSE k \in 1..99 :
                         /\ Candidate(name, k) \notin used
                         /\ \A j \in 1..(k - 1) : Candidate(name, j) \in used)

\* The sheet names of a list of objects, whatever the responses are
RECURSIVE ExpectedNames(_)
ExpectedNames(objects) ==
  IF objects = <<>> THEN <<>>
  ELSE LET before == ExpectedNames(SubSeq(objects, 1, Len(objects) - 1))
       IN Append(before, ExpectedName(objects[Len(objects)].objectLabel,
                                      Range(before)))

ExpectedHeader ==
  <<Str(S_FieldLabel), Str(S_APIName), Str(S_FieldType), Str(S_FieldLength),
    Str(S_PicklistValues)>>

Running(e) == exports[e].pc \notin {"idle", "done"}

RequestsOf(e) == {r \in describeReqs : r.export = e}

-----------------------------------------------------------------------------
(* C2: in every all-objects or selected-objects export, for any list of     *)
(* object labels (repeated ones, ones longer than 31 characters, ones equal *)
(* to a name an earlier collision produced), after each sheet is appended   *)
(* the sheet names of the workbook are pairwise distinct, compared exactly, *)
(* and each is at most 31 characters long.                                  *)

C2_SheetNamesDistinct ==
  \A e \in ExportIds :
    LET sheets == exports[e].sheets IN
    /\ \A i \in DOMAIN sheets : Len(sheets[i].name) <= 31
    /\ \A i, j \in DOMAIN sheets : i # j => sheets[i].name # sheets[j].name
    /\ exports[e].usedSheetNames = [i \in DOMAIN sheets |-> sheets[i].name]

\* "Account", "Account", "Account1" have become Account, Account1, Account11
C2_Witness ==
  \E e \in ExportIds :
    /\ Len(exports[e].sheets) = 3
    /\ [i \in 1..3 |-> exports[e].objects[i].objectLabel]
         = <<S_Account, S_Account, S_Account1>>
    /\ [i \in 1..3 |-> exports[e].sheets[i].name]
         = <<S_Account, S_Account1, S_Account1 \o <<"1">> >>

-----------------------------------------------------------------------------
(* C4: when the field-description request of an object fails (unsuccessful  *)
(* response, no response object, a response without fields), the export is  *)
(* not aborted: the object gets its own sheet whose only data row is        *)
(* [label, API name, "Error fetching fields", "", ""], the sheets of the    *)
(* other objects are what they are without the failure, and the workbook    *)
(* handed to the writer has exactly one sheet per object of the list.       *)

C4_FailureGetsSheet ==
  \A e \in ExportIds :
    LET x == exports[e] IN
    /\ Len(x.sheets) <= Len(x.objects)
    /\ [j \in DOMAIN x.sheets |-> x.sheets[j].name]
         = SubSeq(ExpectedNames(x.objects), 1, Len(x.sheets))
    /\ \A j \in DOMAIN x.sheets :
         LET sheet == x.sheets[j]
             obj == x.objects[j]
         IN /\ sheet.data[1] = ExpectedHeader
            /\ sheet.answer # "fields" =>
                 sheet.data = <<ExpectedHeader,
                                <<Str(obj.objectLabel), Str(obj.objectApiName),
                                  Str(S_ErrorFetchingFields), Str(<<>>), Str(<<>>)>> >>
            /\ sheet.answer = "fields" =>
                 /\ Len(sheet.data) = 1 + Len(fieldsOf(obj.objectApiName))
                 /\ \A r \in 2..Len(sheet.data) :
                      /\ sheet.data[r][1] = Str(fieldsOf(obj.objectApiName)[r - 1].fieldLabel)
                      /\ sheet.data[r][3] # Str(S_ErrorFetchingFields)
    /\ (x.pc = "done" /\ x.result = "aborted") => x.sheets = <<>>
    /\ x.pc = "describe" =>
         /\ Len(x.sheets) < Len(x.objects)
         /\ RequestsOf(e) # {}
    /\ (x.pc = "done" /\ x.result = "written") =>
         /\ Len(x.sheets) = Len(x.objects)
         /\ \E i \in DOMAIN downloads :
              /\ downloads[i].export = e
              /\ downloads[i].sheets = x.sheets
              /\ \A k \in DOMAIN downloads : downloads[k].export = e => k = i

\* An all-objects export has been written; its first object failed with no
\* response object, its second was described
C4_Witness ==
  \E e \in ExportIds :
    /\ exports[e].kind = "all"
    /\ exports[e].result = "written"
    /\ Len(exports[e].sheets) >= 2
    /\ exports[e].sheets[1].answer = "none"
    /\ exports[e].sheets[2].answer = "fields"

-----------------------------------------------------------------------------
(* C9: at most one export operation is running at any time: a trigger that  *)
(* arrives while an earlier export is suspended on a request is rejected or *)
(* queued.                                                                  *)

C9_AtMostOneExport == Cardinality({e \in ExportIds : Running(e)}) <= 1

-----------------------------------------------------------------------------
(* C10: within one export, the field-description request for object N+1 is  *)
(* issued only after the response for object N has been received and the    *)
(* sheet of object N named and appended: at most one such request of the    *)
(* export is outstanding, and the sheets are in the order of the list.      *)

C10_OneOutstanding ==
  \A e \in ExportIds :
    /\ Cardinality(RequestsOf(e)) <= 1
    /\ \A r \in RequestsOf(e) :
         /\ r.index \in DOMAIN exports[e].objects
         /\ r.objectApiName = exports[e].objects[r.index].objectApiName
         /\ Len(exports[e].sheets) = r.index - 1
    /\ \A j \in DOMAIN exports[e].sheets : exports[e].sheets[j].of = j

C10_IssuedAfterAppend ==
  \A r \in describeReqs' \ describeReqs :
    r.index > 1 =>
      /\ \E answered \in describeReqs \ describeReqs' :
           answered.export = r.export /\ answered.index = r.index - 1
      /\ Len(exports[r.export].sheets) = r.index - 2
      /\ Len(exports'[r.export].sheets) = r.index - 1
      /\ exports'[r.export].sheets[r.index - 1].of = r.index - 1

\* C10: one describe request outstanding per export, issued after the previous sheet
C10_Sequential == []C10_OneOutstanding /\ [][C10_IssuedAfterAppend]_vars

\* The request for the third object is out; two sheets have been appended
C10_Witness ==
  \E r \in describeReqs :
    /\ r.index = 3
    /\ Len(exports[r.export].sheets) = 2

-----------------------------------------------------------------------------
(* Vocabulary of the current-object export properties                       *)

\* The rendered rows of at least three cells, in rendering order
RECURSIVE FieldRowsInOrder(_)
FieldRowsInOrder(t) ==
  IF t = <<>> THEN <<>>
  ELSE IF Len(RowCells[Head(t)]) >= 3
    THEN <<Head(t)>> \o FieldRowsInOrder(Tail(t))
  ELSE FieldRowsInOrder(Tail(t))

\* The type column of the rows the host page can render, by the table of C5
ExpectedCurrentType ==
  << <<"T", "e", "x", "t", "(", "5", "0", "0", ")">>, S_Picklist, S_Picklist >>

\* What a current-object export that reads the rows now has to export
ExpectedCurrentData ==
  LET kept == FieldRowsInOrder(table) IN
  << <<Str(S_FieldLabel), Str(S_APIName), Str(S_FieldType), Str(S_PicklistValues)>> >>
  \o [i \in 1..Len(kept) |->
        <<Str(RowCells[kept[i]][1]), Str(RowCells[kept[i]][2]),
          Str(ExpectedCurrentType[kept[i]]), Str(AnnotationText(kept[i]))>>]

\* The API name of the current object: the one in the path, or the one the
\* provider gives for the identifier in the path
CurrentApiName == IF isSalesforceId(pathId) THEN S_Invoice__c ELSE pathId

-----------------------------------------------------------------------------
(* C11 (as stated): every workbook a current-object export hands to the     *)
(* writer has one sheet, named after the API name of the current object cut *)
(* to 31 characters.                                                        *)

C11_NamedAfterApiName ==
  \A i \in DOMAIN downloads :
    /\ Len(downloads[i].sheets) = 1
    /\ downloads[i].sheets[1].name = Cut31(CurrentApiName)

(* C11 (amended): every workbook a current-object export hands to the       *)
(* writer has exactly one sheet; it is named after the API name of the      *)
(* current object cut to 31 characters when the name is known, and "Object" *)
(* when the path carries no identifier or the identifier was not resolved;  *)
(* its rows are the 4-column header and one row [label, API name,           *)
(* normalised type, annotation] per rendered row of at least three cells,   *)
(* in rendering order, as the rows were when the export read them.          *)

C11_OneSheet ==
  /\ \A i \in DOMAIN downloads :
       LET d == downloads[i] IN
       /\ Len(d.sheets) = 1
       /\ d.sheets[1].name =
            (IF d.sheets[1].answer \in {"path", "resolved"}
               THEN Cut31(CurrentApiName) ELSE S_Object)
       /\ d.sheets[1].answer \in {"path", "resolved"} =>
            /\ pathId # <<>>
            /\ (d.sheets[1].answer = "resolved") = isSalesforceId(pathId)
       /\ d.sheets[1].data = exports[d.export].data
       /\ Len(d.sheets[1].data) >= 1
       /\ \A r \in DOMAIN d.sheets[1].data : Len(d.sheets[1].data[r]) = 4
  /\ \A e \in ExportIds :
       exports[e].result = "written" <=> \E i \in DOMAIN downloads : downloads[i].export = e

C11_RowsRead ==
  \A e \in ExportIds :
    /\ (exports[e].data = <<>> /\ exports'[e].data # <<>>) =>
         exports'[e].data = ExpectedCurrentData
    /\ exports[e].data # <<>> => exports'[e].data = exports[e].data

\* C11 (amended): one sheet, named after the API name or "Object", holding the rows as read
C11_CurrentWorkbook == []C11_OneSheet /\ [][C11_RowsRead]_vars

\* The Name and Status rows, the second annotated, have been exported for an
\* object whose long API name was cut to 31 characters
C11_Witness ==
  /\ Len(downloads) = 1
  /\ pathId = S_LongApiName
  /\ downloads[1].sheets[1].name = SubSeq(S_LongApiName, 1, 31)
  /\ downloads[1].sheets[1].data =
       << <<Str(S_FieldLabel), Str(S_APIName), Str(S_FieldType), Str(S_PicklistValues)>>,
          <<Str(S_Name), Str(S_Name),
            Str(<<"T", "e", "x", "t", "(", "5", "0", "0", ")">>), Str(S_empty)>>,
          <<Str(S_Status), Str(S_Status__c), Str(S_Picklist), Str(S_ActiveInactive)>> >>

-----------------------------------------------------------------------------
(* C12: in an all-objects export, a failed resolution of an identifier (an  *)
(* error response or no response object) is absorbed for that object: the   *)
(* export is not aborted, and the object stays in the list of the objects    *)
(* to export, under its identifier, so that it gets its one sheet.           *)

C12_FailureStep ==
  \A req \in resolveReqs : \A response \in ResolveResponses :
    (/\ exports[req.export].kind = "all"
     /\ ~(response.present /\ response.success)
     /\ AllResolveResponse(req, response))
    => LET x == exports[req.export]
           y == exports'[req.export]
       IN /\ y.result # "aborted"
          /\ Len(y.objects) > Len(x.objects)
          /\ y.objects[Len(x.objects) + 1].objectApiName = req.objectId
          /\ SubSeq(y.objects, 1, Len(x.objects)) = x.objects

\* C12: a failed resolution never aborts the all-objects export
C12_ResolutionAbsorbed == [][C12_FailureStep]_vars

-----------------------------------------------------------------------------
(* C13: when the wait for the table body times out, a current-object or an  *)
(* all-objects export ends as a whole: it has issued no request, it hands   *)
(* no workbook to the writer, and the spinner is removed; and every export  *)
(* invocation that returns, whatever its outcome, has removed the spinner.  *)

\* An export that waits for the table has asked for nothing and built nothing
C13_NothingWhileWaiting ==
  \A e \in ExportIds :
    exports[e].pc = "waitTable" =>
      /\ exports[e].kind \in {"current", "all"}
      /\ RequestsOf(e) = {}
      /\ \A req \in resolveReqs : req.export # e
      /\ exports[e].sheets = <<>>
      /\ \A i \in DOMAIN downloads : downloads[i].export # e

C13_TimeoutStep ==
  \A e \in ExportIds :
    /\ (exports[e].pc = "waitTable" /\ WaitTimeout(e)) =>
         /\ exports'[e].pc = "done"
         /\ exports'[e].result = "aborted"
         /\ exports'[e].sheets = <<>>
         /\ describeReqs' = describeReqs
         /\ resolveReqs' = resolveReqs
         /\ picklistReqs' = picklistReqs
         /\ downloads' = downloads
         /\ ~spinner'
    /\ (exports[e].pc # "done" /\ exports'[e].pc = "done") => ~spinner'
    /\ exports[e].pc = "done" => exports'[e] = exports[e]

\* C13: a timed-out wait ends the export with nothing asked and nothing written; a returned export has removed the spinner
C13_TimeoutAborts == []C13_NothingWhileWaiting /\ [][C13_TimeoutStep]_vars

\* A current-object export on the page of Account, where nothing has to be
\* resolved, has ended without a workbook: its wait for the table timed out
C13_Witness ==
  /\ pathId = S_Account
  /\ exports[1].kind = "current"
  /\ exports[1].pc = "done"
  /\ exports[1].result = "aborted"
  /\ downloads = <<>>
  /\ ~spinner

-----------------------------------------------------------------------------
(* Vocabulary of the enrichment properties                                  *)

\* The rows whose type text contains "picklist", letters in either case
PicklistTypeRows ==
  {id \in RowIds : Len(RowCells[id]) >= 3
                    /\ ContainsIgnoreCase(RowCells[id][3], S_picklist)}

\* The rows whose API name ends with "__c"
CustomFieldRows ==
  {id \in RowIds :
     /\ Len(RowCells[id]) >= 3
     /\ LET api == RowCells[id][2]
        IN Len(api) >= 3 /\ SubSeq(api, Len(api) - 2, Len(api)) = <<"_", "_", "c">>}

\* The rows a step marks as processed
NewlyMarked == {id \in RowIds : ~rows[id].picklistFetched /\ rows'[id].picklistFetched}

NewRequests == picklistReqs' \ picklistReqs

-----------------------------------------------------------------------------
(* C14: a pass issues a picklist request for an unprocessed row (a rendered *)
(* row with a type cell) exactly when its type text contains "picklist" in  *)
(* either case; the request carries isStandard = TRUE exactly when the API  *)
(* name does not end with "__c"; an unprocessed row that is not a picklist  *)
(* is marked in the same step with an empty annotation, and no request is   *)
(* ever issued for it.                                                      *)

C14_NoRequestForOthers ==
  \A id \in RowIds \ PicklistTypeRows :
    /\ reqCount[id] = 0
    /\ ~Outstanding(id)
    /\ rows[id].picklistFetched => rows[id].picklistText = <<S_empty>>

C14_PassStep ==
  /\ NewlyMarked # {} =>
       /\ NewlyMarked = {id \in FieldRows : ~rows[id].picklistFetched}
       /\ \A id \in NewlyMarked :
            IF id \in PicklistTypeRows
              THEN /\ reqCount'[id] = reqCount[id] + 1
                   /\ \E req \in NewRequests :
                        /\ req.row = id
                        /\ req.fieldApiName = RowCells[id][2]
                        /\ req.isStandard = (id \notin CustomFieldRows)
                   /\ rows'[id].picklistText = rows[id].picklistText
              ELSE /\ reqCount'[id] = 0
                   /\ rows'[id].picklistText = <<S_empty>>
                   /\ rows'[id].title = <<>>
  /\ \A req \in NewRequests :
       /\ req.row \in NewlyMarked \cap PicklistTypeRows
       /\ req.isStandard = (req.row \notin CustomFieldRows)
       /\ \A other \in NewRequests : other.row = req.row => other = req

\* C14: requests go to the unprocessed picklist rows and to no other row
C14_RequestIffPicklist == []C14_NoRequestForOthers /\ [][C14_PassStep]_vars

\* One pass has marked the Name row without a request and has asked for the
\* values of the custom field Status__c
C14_Witness ==
  /\ rows[1].picklistFetched /\ rows[1].picklistText = <<S_empty>> /\ reqCount[1] = 0
  /\ \E req \in picklistReqs : req.row = 2 /\ ~req.isStandard
  /\ reqCount[2] = 1

-----------------------------------------------------------------------------
(* C15: when several rows have picklist requests outstanding at once, the   *)
(* responses may complete in any order: handling one completion writes the  *)
(* text of that response to the row of that request and changes the         *)
(* annotation and the mark of no other row, so that after all completions   *)
(* each row carries the text of the response to its own request.            *)

\* The picklist text the provider has for the field of each picklist row
OwnPicklistText == (2 :> S_ActiveInactive) @@ (3 :> S_Hot)

C15_OwnAnnotation ==
  \A id \in RowIds :
    (rows[id].picklistText # <<>> /\ rows[id].picklistText # <<S_empty>>) =>
      /\ id \in DOMAIN OwnPicklistText
      /\ rows[id].picklistText = <<OwnPicklistText[id]>>
      /\ rows[id].picklistFetched

C15_CompletionStep ==
  \A req \in picklistReqs \ picklistReqs' :
    /\ picklistReqs' = picklistReqs \ {req}
    /\ rows'[req.row].picklistFetched
    /\ rows'[req.row].picklistText \in
         {rows[req.row].picklistText, <<S_empty>>, <<OwnPicklistText[req.row]>>}
    /\ \A id \in RowIds \ {req.row} :
         /\ rows'[id].picklistText = rows[id].picklistText
         /\ rows'[id].title = rows[id].title
         /\ rows'[id].picklistFetched = rows[id].picklistFetched

\* C15: a completion writes to its own row only, whatever the order of the completions
C15_AnyOrder == []C15_OwnAnnotation /\ [][C15_CompletionStep]_vars

\* Status and Type were asked for in this order; the response for Type has
\* come first, the one for Status is still outstanding
C15_Witness ==
  /\ table = <<2, 3>>
  /\ Outstanding(2)
  /\ rows[2].picklistText = <<>>
  /\ rows[3].picklistText = <<S_Hot>>

-----------------------------------------------------------------------------
(* C16: right after a successful picklist response has been handled while a *)
(* query q is in the custom search box, every rendered row of three cells,  *)
(* not only the annotated one, is visible exactly when the filter accepts   *)
(* it for q on the annotations the rows have now: no input event is needed. *)

C16_RefilterStep ==
  customQF.exists =>
    \A req \in picklistReqs \ picklistReqs' :
      \A response \in {r \in PicklistResponses(req) : r.present /\ r.success} :
        PicklistResponse(req, response) =>
          \A id \in FieldRows :
            (rows'[id].display = "") <=>
              SpecifiedVerdict[id, AnnotationText(id)', customQF.value]

\* C16: a successful response reruns the filter over all rows
C16_Refiltered == [][C16_RefilterStep]_vars

\* "Active" is in the search box; the Type row has its values, which do not
\* match, and is hidden, while the Status row still waits for its response
C16_Witness ==
  /\ customQF.exists
  /\ customQF.value = Q_Active
  /\ table = <<3, 2>>
  /\ rows[3].picklistText = <<S_Hot>>
  /\ rows[3].display = "none"
  /\ Outstanding(2)

-----------------------------------------------------------------------------
(* C17: provided the object name resolves, every row of three cells that is *)
(* in the observed table once the detail page is initialised, every row     *)
(* inserted later included, is eventually marked as processed, a picklist   *)
(* row with its request issued; and a notification that reports no added    *)
(* rows starts no pass.                                                     *)

C17_NoPassStep ==
  (/\ mutations # <<>>
   /\ mutations' = <<>>
   /\ \A i \in DOMAIN mutations : mutations[i] = 0)
  => /\ rows' = rows
     /\ picklistReqs' = picklistReqs
     /\ reqCount' = reqCount
     /\ passesResolving' = passesResolving

\* No row leaves the table and no mark is cleared, so a row that is there when
\* all rows of the table are processed has been processed
C17_RowsStay ==
  \A id \in RowIds :
    /\ id \in Range(table) => id \in Range(table')
    /\ rows[id].picklistFetched => rows'[id].picklistFetched

C17_AllProcessed ==
  \A id \in FieldRows :
    /\ rows[id].picklistFetched
    /\ id \in PicklistTypeRows => reqCount[id] = 1

\* C17: from every state of the initialised page on, the rows then in the table are eventually all processed; no pass without added rows
C17_EventuallyProcessed ==
  /\ [][C17_NoPassStep /\ C17_RowsStay]_vars
  /\ (initialised /\ pathId # <<>>) ~> C17_AllProcessed

\* The Type row was inserted after the page of an object known by its
\* identifier was initialised; a later pass has asked for its values
C17_Witness ==
  /\ initialised
  /\ pathId = S_ObjectId
  /\ table = <<1, 3>>
  /\ mutations = <<>>
  /\ rows[1].picklistText = <<S_empty>>
  /\ rows[3].picklistFetched
  /\ \E req \in picklistReqs : req.row = 3 /\ req.objectName = S_Invoice__c

-----------------------------------------------------------------------------
(* C18: a pass that runs when every rendered row is already marked sends no *)
(* request to the provider, neither for picklist values nor to resolve the  *)
(* identifier, and changes the annotation and the mark of no row.           *)

\* A step of a pass: it starts at initialisation or from the observer, and it
\* goes on when the identifier is resolved
C18_PassStep ==
  \/ ~initialised /\ initialised'
  \/ /\ mutations # <<>>
     /\ mutations' = <<>>
     /\ \E i \in DOMAIN mutations : mutations[i] > 0
  \/ passesResolving' < passesResolving

C18_NoWorkStep ==
  (/\ C18_PassStep
   /\ FieldRows # {}
   /\ \A id \in FieldRows : rows[id].picklistFetched)
  => /\ passesResolving' <= passesResolving
     /\ picklistReqs' = picklistReqs
     /\ reqCount' = reqCount
     /\ \A id \in RowIds :
          /\ rows'[id].picklistText = rows[id].picklistText
          /\ rows'[id].picklistFetched = rows[id].picklistFetched

\* C18: no request of any kind from a pass over rows that are all marked
C18_NoWorkWhenAllMarked == [][C18_NoWorkStep]_vars

-----------------------------------------------------------------------------
(* C19: the list of used sheet names belongs to one export invocation: it   *)
(* starts empty and no other invocation reads or writes it. When two        *)
(* all-objects or selected-objects exports overlap, under every             *)
(* interleaving of the responses each export's workbook has the sheet names *)
(* it has when it runs alone, and its own sheet names are pairwise          *)
(* distinct.                                                                *)

SheetNamesOf(sheets) == [i \in DOMAIN sheets |-> sheets[i].name]

\* The names of an export are those of its own list of objects, in order, and
\* its list of used names holds exactly them; a workbook written has them all
C19_NamesAsAlone ==
  /\ \A e \in ExportIds :
       LET x == exports[e]
           names == SheetNamesOf(x.sheets) IN
       /\ Len(names) <= Len(x.objects)
       /\ names = SubSeq(ExpectedNames(x.objects), 1, Len(names))
       /\ x.usedSheetNames = names
       /\ \A i, j \in DOMAIN names : i # j => names[i] # names[j]
       /\ x.pc \in {"idle", "waitTable", "resolve"} => x.usedSheetNames = <<>>
  /\ \A d \in DOMAIN downloads :
       SheetNamesOf(downloads[d].sheets)
         = ExpectedNames(exports[downloads[d].export].objects)

\* A response to one export leaves the used names of the others alone
C19_OwnListStep ==
  \A e \in ExportIds :
    exports'[e].usedSheetNames # exports[e].usedSheetNames
      => /\ \E req \in describeReqs \ describeReqs' : req.export = e
         /\ \A f \in ExportIds \ {e} :
              exports'[f].usedSheetNames = exports[f].usedSheetNames

\* C19: the used names are per invocation, so overlapping exports name alike
C19_OwnSheetNames == []C19_NamesAsAlone /\ [][C19_OwnListStep]_vars

\* Two exports are suspended on a request at the same time, each with a first
\* sheet named Account and a second object labelled Account to name
C19_Witness ==
  /\ \A e \in ExportIds :
       /\ exports[e].pc = "describe"
       /\ SheetNamesOf(exports[e].sheets) = <<S_Account>>
       /\ Len(exports[e].objects) = 2
       /\ exports[e].objects[2].objectLabel = S_Account
  /\ \E e, f \in ExportIds : exports[e].kind = "all" /\ exports[f].kind = "selected"

-----------------------------------------------------------------------------
(* C20: in the all-objects and selected-objects exports, the sheet of an    *)
(* object whose field-description request succeeded is the 5-column header  *)
(* ["Field Label", "API Name", "Field Type", "Field Length", "Picklist      *)
(* Values"] followed by exactly one row per returned field, in the returned *)
(* order, each [fieldLabel, fieldApiName, normalised type of (fieldType,    *)
(* fieldLength), fieldLength or the empty string when the length is absent  *)
(* or zero, picklistValues]; every data row of every sheet has as many      *)
(* columns as its header.                                                   *)

\* The normalised type of a returned field, by the table of C5
ExpectedFieldType(field) ==
  LET t == field.fieldType
      l == field.fieldLength IN
  IF EqualsIgnoreCase(t, S_reference) THEN S_LookupUser
  ELSE IF EqualsIgnoreCase(t, S_double) THEN S_Number40
  ELSE IF EqualsIgnoreCase(t, S_string)
    THEN <<"T", "e", "x", "t", "(">>
           \o Numeral(IF l = Absent \/ l = 0 THEN 500 ELSE l) \o <<")">>
  ELSE IF t = <<>> THEN t
  ELSE <<CHOOSE c \in Range(UpperChars) \cup {t[1]} :
           /\ SameLetter(c, t[1])
           /\ c \notin Range(LowerChars)>> \o SubSeq(t, 2, Len(t))

ExpectedFieldRow(field) ==
  << Str(field.fieldLabel), Str(field.fieldApiName),
     Str(ExpectedFieldType(field)),
     IF field.fieldLength = Absent \/ field.fieldLength = 0
       THEN Str(<<>>) ELSE Num(field.fieldLength),
     Str(field.picklistValues) >>

\* What the sheet of a described object has to hold
ExpectedFieldData(obj) ==
  LET fields == fieldsOf(obj.objectApiName) IN
  <<ExpectedHeader>> \o [i \in 1..Len(fields) |-> ExpectedFieldRow(fields[i])]

C20_SheetAsSpecified(objects, sheet) ==
  /\ sheet.answer = "fields" => sheet.data = ExpectedFieldData(objects[sheet.of])
  /\ Len(sheet.data) >= 1
  /\ Len(sheet.data[1]) = 5
  /\ \A r \in DOMAIN sheet.data : Len(sheet.data[r]) = Len(sheet.data[1])

\* C20: header and one row per returned field; rows as wide as the header
C20_FieldSheets ==
  /\ \A e \in ExportIds :
       exports[e].kind \in {"all", "selected"} =>
         \A i \in DOMAIN exports[e].sheets :
           C20_SheetAsSpecified(exports[e].objects, exports[e].sheets[i])
  /\ \A d \in DOMAIN downloads :
       downloads[d].filename \in {"all", "selected"} =>
         \A i \in DOMAIN downloads[d].sheets :
           C20_SheetAsSpecified(exports[downloads[d].export].objects,
                                downloads[d].sheets[i])

\* A workbook has been written with the sheet of Account (a length of 120, a
\* length of zero), the sheet of an object whose length is absent and the
\* sheet of an object that could not be described
C20_Witness ==
  \E d \in DOMAIN downloads :
    LET sheets == downloads[d].sheets IN
    /\ Len(sheets) = 3
    /\ \E i \in DOMAIN sheets :
         /\ sheets[i].answer = "fields"
         /\ Len(sheets[i].data) = 3
         /\ sheets[i].data[2][3] = Str(<<"T", "e", "x", "t", "(", "1", "2", "0", ")">>)
         /\ sheets[i].data[2][4] = Num(120)
         /\ sheets[i].data[3][4] = Str(<<>>)
    /\ \E i \in DOMAIN sheets :
         /\ sheets[i].answer = "fields"
         /\ Len(sheets[i].data) = 2
         /\ sheets[i].data[2][1] = Str(S_Status)
         /\ sheets[i].data[2][4] = Str(<<>>)
    /\ \E i \in DOMAIN sheets : sheets[i].answer = "failure"

-----------------------------------------------------------------------------
(* C21: the selected-objects export is the all-objects export applied to a  *)
(* list handed over by the caller: side by side on the same ordered list of *)
(* (objectLabel, objectApiName) pairs and with the same provider responses, *)
(* the two issue the same sequence of field-description requests and build  *)
(* workbooks with the same sheet names and the same sheet contents in the   *)
(* same order; only the download filename differs.                          *)

\* The all-objects export e has built its list, and it is the list of the
\* selected-objects export f
SameList(e, f) ==
  /\ exports[e].kind = "all"
  /\ exports[f].kind = "selected"
  /\ exports[e].pc \in {"describe", "done"}
  /\ exports[e].pending = <<>>
  /\ exports[e].objects = exports[f].objects

\* The request an export is suspended on is the one of the object after its
\* last sheet; an export that is not suspended has none
RequestOfProgress(e) ==
  LET x == exports[e] IN
  IF x.pc = "describe"
    THEN {[export |-> e, index |-> Len(x.sheets) + 1,
           objectApiName |-> x.objects[Len(x.sheets) + 1].objectApiName]}
    ELSE {}

SameAnswers(sheetsA, sheetsB, n) ==
  \A i \in 1..n : sheetsA[i].answer = sheetsB[i].answer

-----------------------------------------------------------------------------
(* C22: an all-objects or selected-objects export over a list of n objects  *)
(* in which every request to the provider is eventually answered, with      *)
(* success or not, terminates after issuing exactly n field-description     *)
(* requests, one per object and none twice, and hands the workbook to the   *)
(* writer exactly once, only after the sheet of the last object has been    *)
(* appended.                                                                *)

DownloadsOf(e) == {d \in DOMAIN downloads : downloads[d].export = e}

\* The export is in the loop over its list of objects
InLoop(e) == exports[e].pc = "describe"

\* The loop has ended: one workbook, with the n sheets, and nothing outstanding
LoopEnded(e) ==
  /\ exports[e].pc = "done"
  /\ exports[e].result = "written"
  /\ Len(exports[e].sheets) = Len(exports[e].objects)
  /\ RequestsOf(e) = {}
  /\ Cardinality(DownloadsOf(e)) = 1
  /\ \A d \in DownloadsOf(e) : downloads[d].sheets = exports[e].sheets

\* A workbook is with the writer only when the loop has ended, and an export
\* in the loop has the one request of the object after its last sheet
C22_WrittenAtEnd ==
  \A e \in ExportIds :
    /\ DownloadsOf(e) # {} => LoopEnded(e)
    /\ InLoop(e) =>
         /\ Len(exports[e].sheets) < Len(exports[e].objects)
         /\ \A r \in RequestsOf(e) : r.index = Len(exports[e].sheets) + 1
    /\ \A i \in DOMAIN exports[e].sheets : exports[e].sheets[i].of = i

\* A step sends at most one request of an export, that of the object after
\* the sheets appended so far, which are one more than before the step unless
\* the request is the first: no index is requested twice. A step hands over
\* at most one workbook, with the sheet of the last object in it
C22_RequestStep ==
  /\ \A e \in ExportIds :
       LET new == {r \in describeReqs' \ describeReqs : r.export = e} IN
       /\ Cardinality(new) <= 1
       /\ \A r \in new :
            /\ r.index = Len(exports'[e].sheets) + 1
            /\ r.index \in DOMAIN exports'[e].objects
            /\ IF InLoop(e)
                 THEN /\ Len(exports'[e].sheets) = Len(exports[e].sheets) + 1
                      /\ exports'[e].objects = exports[e].objects
                 ELSE r.index = 1
       /\ Len(exports'[e].sheets) >= Len(exports[e].sheets)
  /\ Len(downloads') <= Len(downloads) + 1
  /\ SubSeq(downloads', 1, Len(downloads)) = downloads
  /\ Len(downloads') > Len(downloads) =>
       LET d == downloads'[Len(downloads')]
           x == exports[d.export] IN
       /\ DownloadsOf(d.export) = {}
       /\ Len(d.sheets) = Len(exports'[d.export].objects)
       /\ x.objects # <<>> =>
            /\ InLoop(d.export)
            /\ Len(x.sheets) = Len(x.objects) - 1
            /\ d.sheets[Len(d.sheets)].of = Len(x.objects)

\* C22: n requests, one per object, then the one workbook, and the export ends
C22_Terminates ==
  /\ []C22_WrittenAtEnd
  /\ [][C22_RequestStep]_vars
  /\ (InLoop(1) ~> LoopEnded(1))
  /\ (Running(1) ~> exports[1].pc = "done")

\* The export of three objects has ended; its workbook has the three sheets,
\* one of them of a request that got no response
C22_Witness ==
  /\ LoopEnded(1)
  /\ Len(exports[1].objects) = 3
  /\ \E i \in 1..3 : exports[1].sheets[i].answer = "none"

-----------------------------------------------------------------------------
(* C23: when an enrichment pass cannot determine the object name (no        *)
(* identifier in the URL, or the resolution of the identifier fails), it    *)
(* issues no picklist request and leaves the processed mark and the         *)
(* annotation of every row as they were: the rows that were unprocessed     *)
(* stay unprocessed and a later pass still takes them.                      *)

RowsUntouched ==
  /\ picklistReqs' = picklistReqs
  /\ reqCount' = reqCount
  /\ \A id \in RowIds :
       /\ rows'[id].picklistFetched = rows[id].picklistFetched
       /\ rows'[id].picklistText = rows[id].picklistText
       /\ needsProcessing(id)' = needsProcessing(id)

\* With no identifier in the URL no pass ever marks a row or asks for values
C23_NoIdentifier ==
  pathId = <<>> =>
    /\ picklistReqs = {}
    /\ passesResolving = 0
    /\ \A id \in RowIds : ~rows[id].picklistFetched /\ reqCount[id] = 0

\* A pass whose resolution fails, by an error response or by no response,
\* and a pass that starts with no identifier, leave the rows untouched
C23_FailedPassStep ==
  /\ (passesResolving' = passesResolving - 1) =>
       \A response \in ResolveResponses :
         (~(response.present /\ response.success) /\ ResolveResponse(response))
           => RowsUntouched
  /\ (pathId = <<>> /\ C18_PassStep) => RowsUntouched

\* C23: a pass without an object name asks for nothing and marks nothing
C23_NoNameNoWork == []C23_NoIdentifier /\ [][C23_FailedPassStep]_vars

\* The resolution got no response; the pass it belonged to is over, no
\* notification is pending, and the rendered row is still unprocessed
C23_Witness ==
  /\ isSalesforceId(pathId)
  /\ uncaught
  /\ passesResolving = 0
  /\ mutations = <<>>
  /\ picklistReqs = {}
  /\ \E id \in FieldRows : needsProcessing(id) /\ isPicklistRow(id)

-----------------------------------------------------------------------------
(* C24: a current-object export never issues a picklist request and never   *)
(* waits for the outstanding ones: the picklist column of an exported row   *)
(* is the annotation the row holds when the rows are read, so a row whose   *)
(* picklist request is still outstanding then is exported with an empty     *)
(* picklist column, and a response that arrives after the rows were read    *)
(* does not change the exported data.                                       *)

\* The export goes on whatever picklist requests are outstanding
C24_NeverWaits ==
  /\ exports[1].pc = "idle" => ENABLED StartCurrent(1, TRUE)
  /\ (exports[1].pc = "waitTable" /\ exports[1].kind = "current") =>
       ENABLED CurrentTableAppears(1)
  /\ (exports[1].pc = "resolve" /\ exports[1].kind = "current") =>
       \A response \in ResolveResponses :
         ENABLED (\E req \in resolveReqs : CurrentResolveResponse(req, response))

C24_ExportStep ==
  LET x == exports[1]
      y == exports'[1]
      kept == FieldRowsInOrder(table) IN
  \* a step of the export sends no picklist request and touches no row
  /\ y # x => /\ picklistReqs' = picklistReqs
              /\ reqCount' = reqCount
              /\ rows' = rows
  \* the rows are read: the picklist column is the annotation of that moment
  /\ (x.data = <<>> /\ y.data # <<>>) =>
       /\ Len(y.data) = Len(kept) + 1
       /\ \A i \in DOMAIN kept :
            /\ y.data[i + 1][4] = Str(AnnotationText(kept[i]))
            /\ Outstanding(kept[i]) => y.data[i + 1][4] = Str(<<>>)
  \* a picklist response leaves the export and what it has read alone
  /\ picklistReqs' # picklistReqs => y = x /\ downloads' = downloads
  \* what is written is what was read
  /\ Len(downloads') > Len(downloads) =>
       /\ downloads'[Len(downloads')].sheets[1].data = y.data
       /\ x.data # <<>> => y.data = x.data

\* C24: the export takes the annotations as they are when it reads the rows
C24_AsRead == []C24_NeverWaits /\ [][C24_ExportStep]_vars

\* The workbook is written with an empty picklist column for the Status row,
\* whose values arrived after the rows had been read, and for the Type row,
\* whose request is still outstanding
C24_Witness ==
  /\ Len(downloads) = 1
  /\ table = <<2, 3>>
  /\ AnnotationText(2) = S_ActiveInactive
  /\ Outstanding(3)
  /\ downloads[1].sheets[1].data[2][1] = Str(S_Status)
  /\ downloads[1].sheets[1].data[2][4] = Str(<<>>)
  /\ downloads[1].sheets[1].data[3][1] = Str(S_Type)
  /\ downloads[1].sheets[1].data[3][4] = Str(<<>>)

-----------------------------------------------------------------------------
(* C25: getUniqueSheetName terminates for every name and every finite list  *)
(* of used names: its collision loop reaches a candidate that is not in the *)
(* used list after finitely many suffix increments, even when candidates    *)
(* built from different suffixes coincide or when names produced by earlier *)
(* suffixing are themselves in the used list.                               *)

\* The suffixes tried so far are 1 .. suffix - 1, each gave a used name, the
\* name held is the last of them, and the loop is never cut short
C25_LoopProgress ==
  call.fn = "uniqueNameLoop" =>
    /\ call.suffix >= 1
    /\ \A j \in 1..(call.suffix - 2) :
         InList(Candidate(call.sheetName, j), call.existingNames)
    /\ call.uniqueName = (IF call.suffix = 1 THEN call.sheetName
                          ELSE Candidate(call.sheetName, call.suffix - 1))
    /\ call.suffix <= MaxIterations
    /\ ret # <<>> => /\ ret[1] = call.uniqueName
                     /\ ~InList(ret[1], call.existingNames)

\* Every iteration takes the next suffix and leaves the inputs alone
C25_IterationStep ==
  (call.fn = "uniqueNameLoop" /\ call' # call) =>
    /\ call'.suffix = call.suffix + 1
    /\ call'.sheetName = call.sheetName
    /\ call'.existingNames = call.existingNames
    /\ InList(call.uniqueName, call.existingNames)

\* C25: the loop returns, with a name that is not in the list
C25_Terminates ==
  /\ []C25_LoopProgress
  /\ [][C25_IterationStep]_vars
  /\ <>(ret # <<>>)

\* The loop has returned the candidate of suffix 20: those of 1 to 10 were in
\* the list, and those of 11 to 19 are the ones of 1 to 9 over again
C25_Witness ==
  /\ call.fn = "uniqueNameLoop"
  /\ ret # <<>>
  /\ call.suffix = 21
  /\ Candidate(call.sheetName, 11) = Candidate(call.sheetName, 1)
  /\ ret[1] = Candidate(call.sheetName, 20)

====
